---- MODULE Spec2Model ----
(***************************************************************************)
(* A model of wasm-composer: the module encoder (WasmBuilder.emitModule),  *)
(* its section emitters, the instruction emitter with its resolution       *)
(* context, the instruction DSL (Op) and the LEB128 encoders.              *)
(*                                                                         *)
(* Every emitter of the source writes into a byte sink and may throw.  It  *)
(* is modelled as an operator that returns a result record                 *)
(*    [bytes |-> what was appended to the sink before returning/throwing,  *)
(*     err   |-> the error thrown, or NoError,                             *)
(*     log   |-> one entry per instruction emitted (instrumentation)]      *)
(* and emitModule is modelled as the sequence of its calls, one action per *)
(* call, with pc as the position inside emitModule.                        *)
(***************************************************************************)
EXTENDS Integers, Sequences, FiniteSets, TLC

VARIABLES
    moduleDefinition,       \* the WasmModuleDefinition handed to emitModule
    pc,                     \* position inside buildWasmModule / emitModule
    outputBytes,            \* WasmBuilder.outputBytes of the module builder
    context,                \* globalInstructionContext
    exportsDefinitions,     \* exportsDefinitions collected by emitModule
    customIndex,            \* loop index of the custom sections loop
    error,                  \* the error thrown by the running encode, or NoError
    emitted,                \* log of the instructions emitted so far
    codeEntries,            \* entryBuilder.bytes of every function of the code section
    opcodeNameToBytes,      \* the precomputed opcode encoding table
    anonymousBlockCounter,  \* Ops.ts counter for naming anonymous blocks
    returned,               \* what the last buildWasmModule call gave its caller
    subject,                \* the module definition whose encodings are compared
    otherDefinition,        \* a module definition constructed through the DSL
    firstReturned,          \* what the first buildWasmModule(subject) gave
    calls,                  \* the calls made so far: whose definition, or what of a builder
    input,                  \* the parameters the module definition was built from
    sink,                   \* a dynamic array of the utilities, used on its own
    appended                \* the values given to the sink since its last clear

vars == <<moduleDefinition, pc, outputBytes, context, exportsDefinitions,
          customIndex, error, emitted, codeEntries, opcodeNameToBytes,
          anonymousBlockCounter, returned, subject, otherDefinition,
          firstReturned, calls, input, sink, appended>>

-----------------------------------------------------------------------------
(* JavaScript values                                                       *)

\* Map.get of a missing key, and the value of an absent optional field.
undefined == -2

\* Array.prototype.indexOf when the element is absent.
NotFound == -1

Min(a, b) == IF a < b THEN a ELSE b

\* Array.prototype.indexOf: 0-based index of the first occurrence, or -1.
IndexOf(arr, x) ==
    IF \E i \in 1..Len(arr) : arr[i] = x
    THEN (CHOOSE i \in 1..Len(arr) :
              /\ arr[i] = x
              /\ \A j \in 1..(i - 1) : arr[j] # x) - 1
    ELSE NotFound

\* new Map()
EmptyMap == [k \in {} |-> 0]


\* a faulty Map.prototype.set: a key already set keeps its value
MapSet_KeepFirst(m, k, v) == [x \in (DOMAIN m) \cup {k} |-> IF x \in DOMAIN m THEN m[x] ELSE v]

\* Map.prototype.set: a later set of the same key overwrites.
MapSet(m, k, v) == [x \in (DOMAIN m) \cup {k} |-> IF x = k THEN v ELSE m[x]]

\* Map.prototype.get
MapGet(m, k) == IF k \in DOMAIN m THEN m[k] ELSE undefined

RECURSIVE MapSetAll_OneBased(_, _, _, _)
\* a faulty forEach: the first entry is given index base + 1
MapSetAll_OneBased(m, entries, base, i) ==
    IF i > Len(entries) THEN m
    ELSE MapSetAll_OneBased(MapSet(m, entries[i].name, base + i), entries, base, i + 1)

RECURSIVE MapSetAll(_, _, _, _)
\* entries.forEach((entry, index) => map.set(entry.name, base + index)), from entry i on
MapSetAll(m, entries, base, i) ==
    IF i > Len(entries) THEN m
    ELSE MapSetAll(MapSet(m, entries[i].name, base + (i - 1)), entries, base, i + 1)

-----------------------------------------------------------------------------
(* The dynamic arrays of the utilities                                     *)

\* what storing a number in a Uint8Array keeps of it
ToUint8(value) == value % 256

\* new Uint8Array(length): zero-filled
NewUint8Array(length) == [i \in 1..length |-> 0]

\* new DynamicUint8Array(initialCapacity)
createDynamicUint8Array(initialCapacity) ==
    [type |-> "DynamicUint8Array", elements |-> NewUint8Array(initialCapacity), length |-> 0]

\* get capacity(): this.elements.length
DynamicUint8Array_capacity(array) == Len(array.elements)

\* get values(): this.elements.subarray(0, this.length)
DynamicUint8Array_values(array) == SubSeq(array.elements, 1, array.length)

\* typedArray.set(source, offset)
TypedArraySet(target, source, offset) ==
    [i \in 1..Len(target) |->
        IF i > offset /\ i <= offset + Len(source) THEN ToUint8(source[i - offset])
        ELSE target[i]]

\* a faulty ensureCapacity: the new storage is not filled from the old one
DynamicUint8Array_ensureCapacity_NoCopy(array, requiredCapacity) ==
    IF requiredCapacity > DynamicUint8Array_capacity(array)
    THEN [array EXCEPT !.elements = NewUint8Array(requiredCapacity * 2)]
    ELSE array

DynamicUint8Array_ensureCapacity(array, requiredCapacity) ==
    IF requiredCapacity > DynamicUint8Array_capacity(array)
    THEN LET newCapacity == requiredCapacity * 2
             newElements == NewUint8Array(newCapacity)
         IN  [array EXCEPT
                 !.elements = TypedArraySet(newElements, DynamicUint8Array_values(array), 0)]
    ELSE array

DynamicUint8Array_appendValue(array, newValue) ==
    LET ensured == IF array.length >= DynamicUint8Array_capacity(array)
                   THEN DynamicUint8Array_ensureCapacity(array, array.length + 1)
                   ELSE array
    IN  [ensured EXCEPT
            !.elements = TypedArraySet(ensured.elements, <<newValue>>, array.length),
            !.length = array.length + 1]

DynamicUint8Array_appendValues(array, newValues) ==
    LET addedCount == Len(newValues)
        requiredCapacity == array.length + addedCount
        ensured == IF requiredCapacity > DynamicUint8Array_capacity(array)
                   THEN DynamicUint8Array_ensureCapacity(array, requiredCapacity)
                   ELSE array
    IN  [ensured EXCEPT
            !.elements = TypedArraySet(ensured.elements, newValues, array.length),
            !.length = array.length + addedCount]

DynamicUint8Array_clear(array) == [array EXCEPT !.length = 0]

\* new DynamicNumberArray(): elements is a number[], and length its length
createDynamicNumberArray ==
    [type |-> "DynamicNumberArray", elements |-> <<>>, length |-> 0]

DynamicNumberArray_addValue(array, newValue) ==
    [array EXCEPT !.elements = Append(array.elements, newValue),
                  !.length = Len(array.elements) + 1]

DynamicNumberArray_addValues(array, newValues) ==
    [array EXCEPT !.elements = array.elements \o newValues,
                  !.length = Len(array.elements) + Len(newValues)]

\* this.elements.length = 0
DynamicNumberArray_clear(array) == [array EXCEPT !.elements = <<>>, !.length = 0]

DynamicNumberArray_values(array) == array.elements

-----------------------------------------------------------------------------
(* Results of emitters                                                     *)

NoError == [kind |-> "none", name |-> ""]

Ok(bytes) == [bytes |-> bytes, err |-> NoError, log |-> <<>>]

Nothing == Ok(<<>>)

\* throw new Error(...): nothing more is written
Throw(kind, name) == [bytes |-> <<>>, err |-> [kind |-> kind, name |-> name], log |-> <<>>]

Failed(r) == r.err.kind # "none"

\* statement a; statement b
Then(a, b) ==
    IF Failed(a) THEN a
    ELSE [bytes |-> a.bytes \o b.bytes, err |-> b.err, log |-> a.log \o b.log]

RECURSIVE ThenAll(_, _)
\* the statements rs[i], rs[i+1], ... in order, stopping at the first throw
ThenAll(rs, i) ==
    IF i > Len(rs) THEN Nothing
    ELSE IF Failed(rs[i]) THEN rs[i]
    ELSE Then(rs[i], ThenAll(rs, i + 1))

-----------------------------------------------------------------------------
(* LEB128 encoders (utilities/Leb128Encoder.ts)                            *)

MaxInt31 == 2147483647

\* fault variant: five groups whatever the value
encodeUnsignedInt31_FiveGroups(value) ==
    <<(value % 128) + 128, ((value \div 128) % 128) + 128,
      ((value \div 16384) % 128) + 128, ((value \div 2097152) % 128) + 128,
      value \div 268435456>>

encodeUnsignedInt31(value) ==
    IF value < 128 THEN
        <<value>>
    ELSE IF value < 16384 THEN
        <<(value % 128) + 128, value \div 128>>
    ELSE IF value < 2097152 THEN
        <<(value % 128) + 128, ((value \div 128) % 128) + 128, value \div 16384>>
    ELSE IF value < 268435456 THEN
        <<(value % 128) + 128, ((value \div 128) % 128) + 128,
          ((value \div 16384) % 128) + 128, value \div 2097152>>
    ELSE
        <<(value % 128) + 128, ((value \div 128) % 128) + 128,
          ((value \div 16384) % 128) + 128, ((value \div 2097152) % 128) + 128,
          value \div 268435456>>

\* A bigint, and a number outside the 32-bit range, is kept as its two's
\* complement in groups of 7 bits, lowest first, and the sign that fills the
\* groups above them (0 or -1): [type, digits, sign]

\* the i-th group of 7 bits, from 1
DigitAt(value, i) ==
    IF i <= Len(value.digits) THEN value.digits[i]
    ELSE IF value.sign < 0 THEN 127 ELSE 0

\* value & 127n
LowestBits(value) == DigitAt(value, 1)

\* value >> 7n
ShiftRight7(value) ==
    [value EXCEPT !.digits = IF @ = <<>> THEN <<>> ELSE Tail(@)]

\* value === 0n
IsZero(value) ==
    value.sign = 0 /\ \A i \in 1..Len(value.digits) : value.digits[i] = 0

\* value === -1n
IsMinusOne(value) ==
    value.sign < 0 /\ \A i \in 1..Len(value.digits) : value.digits[i] = 127

\* value < 0
IsNegative(value) == value.sign < 0

\* value >= -2147483648 && value <= 2147483647
InInt32Range(value) ==
    /\ \A i \in 6..Len(value.digits) : value.digits[i] = DigitAt(value, i + 1)
    /\ IF IsNegative(value) THEN DigitAt(value, 5) >= 120 ELSE DigitAt(value, 5) < 8

\* BigInt(value) of a number in the 32-bit range
BigInt(value) ==
    [type |-> "bigint",
     digits |-> <<value % 128, (value \div 128) % 128, (value \div 16384) % 128,
                  (value \div 2097152) % 128, (value \div 268435456) % 128>>,
     sign |-> IF value < 0 THEN -1 ELSE 0]

\* the number in the 32-bit range as a native number
Int32Of(value) ==
    LET low31 == DigitAt(value, 1) + 128 * DigitAt(value, 2) + 16384 * DigitAt(value, 3)
                     + 2097152 * DigitAt(value, 4) + 268435456 * (DigitAt(value, 5) % 8)
    IN  IF IsNegative(value) THEN (-2147483647 - 1) + low31 ELSE low31

\* BigInt.asIntN(bits, value), and value | 0 of a number (bits = 32): the low
\* `bits` bits, read as a signed integer
asIntN(bits, value) ==
    LET groups == bits \div 7
        high == 2 ^ (bits % 7)
        top == DigitAt(value, groups + 1) % high
        negative == 2 * top >= high
    IN  [type |-> value.type,
         digits |-> [i \in 1..(groups + 1) |->
                        IF i <= groups THEN DigitAt(value, i)
                        ELSE IF negative THEN top + (128 - high) ELSE top],
         sign |-> IF negative THEN -1 ELSE 0]

RECURSIVE encodeUnsignedBigInt(_)
encodeUnsignedBigInt(value) ==
    LET lowest7Bits == LowestBits(value)
        rest == ShiftRight7(value)
    IN  IF IsZero(rest) THEN <<lowest7Bits>>
        ELSE <<lowest7Bits + 128>> \o encodeUnsignedBigInt(rest)

\* encodeUnsignedLeb128 of a native number
encodeUnsignedLeb128(value) ==
    IF value < 0 THEN Throw("InvalidValue", "negative")
    ELSE IF value <= MaxInt31 THEN Ok(encodeUnsignedInt31(value))
    ELSE Ok(encodeUnsignedBigInt(BigInt(value)))

\* encodeUnsignedLeb128 of a bigint or of a number of any size
encodeUnsignedLeb128OfValue(value) ==
    IF IsNegative(value) THEN Throw("InvalidValue", "negative")
    ELSE IF value.type = "number"
    THEN IF InInt32Range(value)
         THEN Ok(encodeUnsignedInt31(Int32Of(value)))
         ELSE Ok(encodeUnsignedBigInt(value))
    ELSE Ok(encodeUnsignedBigInt(value))

\* absValue < limit, for absValue = Math.abs(value | 0), which is 2^31 for -2^31
AbsBelow(value, limit) == -limit < value /\ value < limit

encodeSignedInt32(value) ==
    IF AbsBelow(value, 64) THEN
        <<value % 128>>
    ELSE IF AbsBelow(value, 8192) THEN
        <<(value % 128) + 128, (value \div 128) % 128>>
    ELSE IF AbsBelow(value, 1048576) THEN
        <<(value % 128) + 128, ((value \div 128) % 128) + 128,
          (value \div 16384) % 128>>
    ELSE IF AbsBelow(value, 134217728) THEN
        <<(value % 128) + 128, ((value \div 128) % 128) + 128,
          ((value \div 16384) % 128) + 128, (value \div 2097152) % 128>>
    ELSE
        <<(value % 128) + 128, ((value \div 128) % 128) + 128,
          ((value \div 16384) % 128) + 128, ((value \div 2097152) % 128) + 128,
          (value \div 268435456) % 128>>

RECURSIVE encodeSignedBigInt_NoSignBit(_)
\* fault variant: the loop stops without looking at the sign bit of the last group
encodeSignedBigInt_NoSignBit(value) ==
    LET lowest7Bits == LowestBits(value)
        rest == ShiftRight7(value)
    IN  IF IsZero(rest) \/ IsMinusOne(rest)
        THEN <<lowest7Bits>>
        ELSE <<lowest7Bits + 128>> \o encodeSignedBigInt_NoSignBit(rest)

RECURSIVE encodeSignedBigInt(_)
encodeSignedBigInt(value) ==
    LET lowest7Bits == LowestBits(value)
        signBit == (lowest7Bits \div 64) % 2
        rest == ShiftRight7(value)
    IN  IF (IsZero(rest) /\ signBit = 0) \/ (IsMinusOne(rest) /\ signBit # 0)
        THEN <<lowest7Bits>>
        ELSE <<lowest7Bits + 128>> \o encodeSignedBigInt(rest)

\* encodeSignedLeb128 of a native number
encodeSignedLeb128(value) ==
    IF value >= -2147483647 - 1 /\ value <= MaxInt31
    THEN Ok(encodeSignedInt32(value))
    ELSE Ok(encodeSignedBigInt(BigInt(value)))

\* encodeSignedLeb128 of a bigint or of a number of any size
encodeSignedLeb128OfValue(value) ==
    IF value.type = "number"
    THEN IF InInt32Range(value)
         THEN Ok(encodeSignedInt32(Int32Of(value)))
         ELSE Ok(encodeSignedBigInt(value))
    ELSE Ok(encodeSignedBigInt(value))

encodeUint(value) == encodeUnsignedLeb128(value)

encodeInt(value) == encodeSignedLeb128(value)

-----------------------------------------------------------------------------
(* Low-level emitters (WasmBuilder)                                        *)

emitByte(byte) == Ok(<<byte>>)

emitBytes(bytes) == Ok(bytes)

emitUint(value) == encodeUint(value)

emitInt(value) == encodeInt(value)

\* emitInt of a bigint or of a number of any size
emitIntOfValue(value) == encodeSignedLeb128OfValue(value)

\* a faulty emitLengthPrefixedBytes: the length counts its own byte
emitLengthPrefixedBytes_CountingPrefix(bytes) ==
    Then(emitUint(Len(bytes) + 1), emitBytes(bytes))

emitLengthPrefixedBytes(bytes) == Then(emitUint(Len(bytes)), emitBytes(bytes))

emitLengthPrefixedUintArray(elements) ==
    Then(emitUint(Len(elements)),
         ThenAll([i \in 1..Len(elements) |-> emitUint(elements[i])], 1))

\* encodeUTF8 of the names of the model, which are letters of ASCII: name |-> bytes
encodeUTF8(str) ==
    CASE str = "a" -> <<97>>
      [] str = "b" -> <<98>>
      [] str = "c" -> <<99>>
      [] str = "d" -> <<100>>
      [] str = "m" -> <<109>>
      [] str = "n" -> <<110>>
      [] str = "ab" -> <<97, 98>>
      [] OTHER -> <<63>>

emitString(str) == Then(emitUint(Len(encodeUTF8(str))), emitBytes(encodeUTF8(str)))

-----------------------------------------------------------------------------
(* Value types and reference types                                         *)

\* A ValueType is a number (NumberTypeId, VectorTypeId, PackedTypeId) or a
\* ReferenceType object; both are records here, isNumber telling them apart.
NumberType(id) == [isNumber |-> TRUE, value |-> id, kind |-> 0, typeId |-> 0, typeIndex |-> 0]

ReferenceType(kind, typeId, typeIndex) ==
    [isNumber |-> FALSE, value |-> 0, kind |-> kind, typeId |-> typeId, typeIndex |-> typeIndex]

\* the absent `returns` of a block
NoType == [isNumber |-> FALSE, value |-> undefined, kind |-> undefined, typeId |-> 0, typeIndex |-> 0]

i32 == 127
i64 == 126
emptyType == 64
HeapTypeFunc == 112

emitReferenceType(refType) ==
    LET kind == refType.kind
    IN  IF kind = 0 THEN emitByte(refType.typeId)
        ELSE IF kind = 1 THEN emitInt(refType.typeIndex)
        ELSE IF kind = 2 THEN Then(emitByte(99), emitByte(refType.typeId))
        ELSE IF kind = 3 THEN Then(emitByte(99), emitInt(refType.typeIndex))
        ELSE IF kind = 4 THEN Then(emitByte(100), emitByte(refType.typeId))
        ELSE IF kind = 5 THEN Then(emitByte(100), emitInt(refType.typeIndex))
        ELSE Throw("MalformedInput", "referenceTypeKind")

emitStorageType(type) ==
    IF type.isNumber THEN emitByte(type.value) ELSE emitReferenceType(type)

emitValueType(valueType) == emitStorageType(valueType)

emitLengthPrefixedValueTypeArray(valueTypes) ==
    Then(emitUint(Len(valueTypes)),
         ThenAll([i \in 1..Len(valueTypes) |-> emitValueType(valueTypes[i])], 1))

emitFunctionSignature(functionSignature) ==
    Then(emitLengthPrefixedValueTypeArray(functionSignature.paramTypes),
         emitLengthPrefixedValueTypeArray(functionSignature.returnTypes))

emitLimits(entry) ==
    IF entry.maximum # undefined
    THEN Then(emitByte(1), Then(emitUint(entry.minimum), emitUint(entry.maximum)))
    ELSE Then(emitByte(0), emitUint(entry.minimum))

emitTableEntry(entry) == Then(emitReferenceType(entry.referenceType), emitLimits(entry.limits))

emitGlobalType(globalType) ==
    Then(emitValueType(globalType.type), emitByte(IF globalType.mutable THEN 1 ELSE 0))

-----------------------------------------------------------------------------
(* Opcodes                                                                 *)

OpcodeNames ==
    {"unreachable", "nop", "block", "loop", "if", "else", "end", "br", "br_if",
     "br_table", "return", "call", "drop", "local.get", "local.set", "local.tee",
     "global.get", "global.set", "table.get", "table.set", "memory.size",
     "memory.grow", "i32.const", "i32.add", "ref.func", "memory.init",
     "data.drop", "memory.copy", "table.init", "elem.drop",
     "call_indirect", "call_ref", "i64.const", "br_on_null", "br_on_non_null",
     "br_on_cast", "br_on_cast_fail"}

\* wasmOpcodes of Opcodes.ts: the standard opcode numbers
wasmOpcodes(name) ==
    CASE name = "unreachable" -> 0
      [] name = "nop" -> 1
      [] name = "block" -> 2
      [] name = "loop" -> 3
      [] name = "if" -> 4
      [] name = "else" -> 5
      [] name = "end" -> 11
      [] name = "br" -> 12
      [] name = "br_if" -> 13
      [] name = "br_table" -> 14
      [] name = "return" -> 15
      [] name = "call" -> 16
      [] name = "drop" -> 26
      [] name = "local.get" -> 32
      [] name = "local.set" -> 33
      [] name = "local.tee" -> 34
      [] name = "global.get" -> 35
      [] name = "global.set" -> 36
      [] name = "table.get" -> 37
      [] name = "table.set" -> 38
      [] name = "memory.size" -> 63
      [] name = "memory.grow" -> 64
      [] name = "i32.const" -> 65
      [] name = "i32.add" -> 106
      [] name = "ref.func" -> 210
      [] name = "memory.init" -> 64520
      [] name = "data.drop" -> 64521
      [] name = "memory.copy" -> 64522
      [] name = "table.init" -> 64524
      [] name = "elem.drop" -> 64525
      [] name = "call_indirect" -> 17
      [] name = "call_ref" -> 20
      [] name = "i64.const" -> 66
      [] name = "br_on_null" -> 213
      [] name = "br_on_non_null" -> 214
      [] name = "br_on_cast" -> 64280
      [] name = "br_on_cast_fail" -> 64281

emitOpcode(opcode) ==
    IF opcode <= 255 THEN
        emitUint(opcode)
    ELSE IF opcode <= 65535 THEN
        Then(emitUint(opcode \div 256), emitUint(opcode % 256))
    ELSE IF opcode <= 1048575 THEN
        Then(emitUint(opcode \div 4096), emitUint(opcode % 4096))
    ELSE Throw("InvalidValue", "opcode")

\* fault variant: the opcodeBuilder is not reset between the keys, so the bytes
\* of the first key stay in front of those of every key
initializeEncodedOpcodesTable_NoReset ==
    [key \in OpcodeNames |->
        emitOpcode(wasmOpcodes("unreachable")).bytes \o emitOpcode(wasmOpcodes(key)).bytes]

\* initializeEncodedOpcodesTable: reset, emitOpcode, copy of the bytes, per key
initializeEncodedOpcodesTable == [key \in OpcodeNames |-> emitOpcode(wasmOpcodes(key)).bytes]

-----------------------------------------------------------------------------
(* Instruction model and DSL (Ops.ts)                                      *)

\* An Instruction record.  `emitter` names the immediatesEmitter closure the
\* constructor attached ("" when there is none), `names` and `nums` are the
\* operands the closure captured, hasBody says whether bodyInstructions is
\* an array (isBlockInstruction).  An array nested in an Instructions list
\* is a record with tag "list" whose elements are in bodyInstructions.
Instruction(opcodeName, emitter, names, nums) ==
    [tag |-> "instr", opcodeName |-> opcodeName, emitter |-> emitter,
     names |-> names, nums |-> nums, returns |-> NoType,
     blockName |-> "", hasBody |-> FALSE, bodyInstructions |-> <<>>]

BlockInstruction(opcodeName, emitter, blockName, returns, body) ==
    [tag |-> "instr", opcodeName |-> opcodeName, emitter |-> emitter,
     names |-> <<blockName>>, nums |-> <<>>, returns |-> returns,
     blockName |-> blockName, hasBody |-> TRUE, bodyInstructions |-> body]

NestedList(elements) ==
    [tag |-> "list", opcodeName |-> "", emitter |-> "",
     names |-> <<>>, nums |-> <<>>, returns |-> NoType,
     blockName |-> "", hasBody |-> FALSE, bodyInstructions |-> elements]

createSimpleInstruction(opcodeName, immediates) ==
    Instruction(opcodeName, "simple", <<>>, immediates)

createBlockInstruction(opcodeName, name, returns, body) ==
    BlockInstruction(opcodeName, "blockType", name, returns, body)

\* the name Op.if gives its block when the counter is n
ifBlockName(n) == "ifBlock_" \o ToString(n)

\* the name Op.else gives its block when the counter is n
elseBlockName(n) == "elseBlock_" \o ToString(n)

\* Op.if(options, body) called when anonymousBlockCounter = n
Op_if(n, returns, body) == BlockInstruction("if", "blockType", ifBlockName(n), returns, body)

\* Op.else(body) called when anonymousBlockCounter = n
Op_else(n, body) == BlockInstruction("else", "", elseBlockName(n), NoType, body)

Op_end == createSimpleInstruction("end", <<>>)

Op_nop == createSimpleInstruction("nop", <<>>)

Op_drop == createSimpleInstruction("drop", <<>>)

Op_i32_add == createSimpleInstruction("i32.add", <<>>)

Op_i32_const(value) == Instruction("i32.const", "i32.const", <<>>, <<value>>)

\* the immediatesEmitter of Op.i32.const(value), for a bigint or a number of
\* any size: Number(BigInt.asIntN(32, value)), or value | 0
i32_constImmediates(value) ==
    emitIntOfValue([asIntN(32, value) EXCEPT !.type = "number"])

\* the immediatesEmitter of Op.i64.const(value), for a bigint or a number of
\* any size: a bigint is wrapped by BigInt.asIntN(64, value), a number is not
i64_constImmediates(value) ==
    emitIntOfValue(IF value.type = "bigint" THEN asIntN(64, value) ELSE value)

createBranchInstruction(opcodeName, targetBlockName) ==
    Instruction(opcodeName, "branch", <<targetBlockName>>, <<>>)

\* names = the targets followed by the default
Op_br_table(blockNames, defaultBlockName) ==
    Instruction("br_table", "br_table", Append(blockNames, defaultBlockName), <<>>)

Op_call(functionName) == Instruction("call", "function", <<functionName>>, <<>>)

Op_call_indirect(typeName, tableName) ==
    Instruction("call_indirect", "call_indirect", <<typeName, tableName>>, <<>>)

Op_call_ref(typeName) == Instruction("call_ref", "type", <<typeName>>, <<>>)

\* nums = type1, type2, branchOnType1Null, branchOnType2Null (0 or 1)
createBranchOnCastInstruction(opcodeName, targetBlockName, type1, type2, branchOnType1Null, branchOnType2Null) ==
    Instruction(opcodeName, "branchOnCast", <<targetBlockName>>,
                <<type1, type2, branchOnType1Null, branchOnType2Null>>)

Op_ref_func(functionName) == Instruction("ref.func", "function", <<functionName>>, <<>>)

createNamedLocalInstruction(opcodeName, localName) ==
    Instruction(opcodeName, "local", <<localName>>, <<>>)

createNamedGlobalInstruction(opcodeName, globalName) ==
    Instruction(opcodeName, "global", <<globalName>>, <<>>)

createTableInstruction(opcodeName, tableName) ==
    Instruction(opcodeName, "table", <<tableName>>, <<>>)

createMemoryInstruction(opcodeName, memoryName) ==
    Instruction(opcodeName, "memory", <<memoryName>>, <<>>)

Op_table_init(tableName, elementName) ==
    Instruction("table.init", "table.init", <<tableName, elementName>>, <<>>)

Op_elem_drop(elementName) == Instruction("elem.drop", "elem.drop", <<elementName>>, <<>>)

Op_memory_init(memoryName, dataEntryName) ==
    Instruction("memory.init", "memory.init", <<memoryName, dataEntryName>>, <<>>)

Op_memory_copy(memory1Name, memory2Name) ==
    Instruction("memory.copy", "memory.copy", <<memory1Name, memory2Name>>, <<>>)

Op_data_drop(dataEntryName) == Instruction("data.drop", "data.drop", <<dataEntryName>>, <<>>)

-----------------------------------------------------------------------------
(* Immediates emitters: the closures of Ops.ts, by constructor             *)

\* const index = lookup.get(name); if (index === undefined) throw; emitUint(index)
ResolveThenEmit(lookup, name) ==
    LET index == MapGet(lookup, name)
    IN  IF index = undefined THEN Throw("UnresolvedName", name) ELSE emitUint(index)

\* the two-name closures: both lookups are checked before anything is written
ResolveTwoThenEmit(index1, name1, index2, name2, first, second) ==
    IF index1 = undefined THEN Throw("UnresolvedName", name1)
    ELSE IF index2 = undefined THEN Throw("UnresolvedName", name2)
    ELSE Then(emitUint(first), emitUint(second))

blockTypeImmediates(instruction) ==
    IF instruction.returns # NoType
    THEN emitValueType(instruction.returns)
    ELSE emitByte(emptyType)

\* createBranchInstruction: indexOf never gives undefined, so the test never throws
branchImmediates(instruction, ctx) ==
    LET blockIndex == IndexOf(ctx.blockStack, instruction.names[1])
    IN  IF blockIndex = undefined
        THEN Throw("UnresolvedName", instruction.names[1])
        ELSE emitUint(blockIndex)

\* createBranchOnCastInstruction: the same test; the flags byte is written
\* before the block index
branchOnCastImmediates(instruction, ctx) ==
    LET blockIndex == IndexOf(ctx.blockStack, instruction.names[1])
        flags == instruction.nums[3] + 2 * instruction.nums[4]
    IN  IF blockIndex = undefined
        THEN Throw("UnresolvedName", instruction.names[1])
        ELSE Then(emitByte(flags),
             Then(emitUint(blockIndex),
             Then(emitByte(instruction.nums[1]), emitByte(instruction.nums[2]))))

br_tableImmediates(instruction, ctx) ==
    LET n == Len(instruction.names) - 1
        blockNames == SubSeq(instruction.names, 1, n)
        defaultBlockName == instruction.names[n + 1]
        blockIndexes == [i \in 1..n |-> IndexOf(ctx.blockStack, blockNames[i])]
        defaultBlockIndex == IndexOf(ctx.blockStack, defaultBlockName)
        unresolved == {i \in 1..n : blockIndexes[i] = NotFound}
    IN  IF unresolved # {}
        THEN Throw("UnresolvedName",
                   blockNames[CHOOSE i \in unresolved : \A j \in unresolved : i <= j])
        ELSE IF defaultBlockIndex = NotFound
        THEN Throw("UnresolvedName", defaultBlockName)
        ELSE Then(emitLengthPrefixedUintArray(blockIndexes), emitUint(defaultBlockIndex))

immediatesEmitter(instruction, ctx) ==
    LET e == instruction.emitter
        names == instruction.names
    IN  CASE e = "simple" ->
               ThenAll([i \in 1..Len(instruction.nums) |-> emitUint(instruction.nums[i])], 1)
          [] e = "blockType" -> blockTypeImmediates(instruction)
          [] e = "i32.const" -> emitInt(instruction.nums[1])
          [] e = "branch" -> branchImmediates(instruction, ctx)
          [] e = "br_table" -> br_tableImmediates(instruction, ctx)
          [] e = "branchOnCast" -> branchOnCastImmediates(instruction, ctx)
          [] e = "function" -> ResolveThenEmit(ctx.functionsLookup, names[1])
          [] e = "type" -> ResolveThenEmit(ctx.typesLookup, names[1])
          [] e = "call_indirect" ->
               LET typeIndex == MapGet(ctx.typesLookup, names[1])
                   tableIndex == MapGet(ctx.tablesLookup, names[2])
               IN  ResolveTwoThenEmit(typeIndex, names[1], tableIndex, names[2],
                                      typeIndex, tableIndex)
          [] e = "local" -> ResolveThenEmit(ctx.localsLookup, names[1])
          [] e = "global" -> ResolveThenEmit(ctx.globalsLookup, names[1])
          [] e = "table" -> ResolveThenEmit(ctx.tablesLookup, names[1])
          [] e = "memory" -> ResolveThenEmit(ctx.memoriesLookup, names[1])
          [] e = "table.init" ->
               LET tableIndex == MapGet(ctx.tablesLookup, names[1])
                   elementIndex == MapGet(ctx.elementsLookup, names[2])
               IN  ResolveTwoThenEmit(tableIndex, names[1], elementIndex, names[2],
                                      tableIndex, elementIndex)
          [] e = "elem.drop" -> ResolveThenEmit(ctx.tablesLookup, names[1])
          [] e = "memory.init" ->
               LET memoryIndex == MapGet(ctx.memoriesLookup, names[1])
                   dataEntryIndex == MapGet(ctx.dataLookup, names[2])
               IN  ResolveTwoThenEmit(memoryIndex, names[1], dataEntryIndex, names[2],
                                      dataEntryIndex, memoryIndex)
          [] e = "memory.copy" ->
               LET memory1Index == MapGet(ctx.memoriesLookup, names[1])
                   memory2Index == MapGet(ctx.memoriesLookup, names[1])
               IN  ResolveTwoThenEmit(memory1Index, names[1], memory2Index, names[2],
                                      memory1Index, memory2Index)
          [] e = "data.drop" -> ResolveThenEmit(ctx.dataLookup, names[1])

-----------------------------------------------------------------------------
(* Instruction emitters (WasmBuilder)                                      *)

RECURSIVE flattenInstructions_InnerFirst(_)
\* fault variant: the instructions of the sub-lists come before the others
flattenInstructions_InnerFirst(instructions) ==
    IF instructions = <<>> THEN <<>>
    ELSE LET element == Head(instructions)
         IN  IF element.tag = "list"
             THEN flattenInstructions_InnerFirst(element.bodyInstructions)
                      \o flattenInstructions_InnerFirst(Tail(instructions))
             ELSE flattenInstructions_InnerFirst(Tail(instructions)) \o <<element>>

RECURSIVE flattenInstructions(_)
flattenInstructions(instructions) ==
    IF instructions = <<>> THEN <<>>
    ELSE LET element == Head(instructions)
         IN  IF element.tag = "list"
             THEN flattenInstructions(element.bodyInstructions)
                      \o flattenInstructions(Tail(instructions))
             ELSE <<element>> \o flattenInstructions(Tail(instructions))

isBlockInstruction(instruction) == instruction.hasBody

\* what the instrumentation records of an emitted instruction
LogEntry(instruction, ctx, immediates) ==
    [opcodeName |-> instruction.opcodeName, names |-> instruction.names,
     immediates |-> immediates, blockStack |-> ctx.blockStack,
     locals |-> DOMAIN ctx.localsLookup, threw |-> FALSE]

\* what it records of an instruction whose immediates emitter threw: the
\* immediate bytes written before the throw
ThrewEntry(instruction, ctx, immediates) ==
    [LogEntry(instruction, ctx, immediates) EXCEPT !.threw = TRUE]

\* a faulty push: the new block put at the far end of the stack
pushBlock_AtEnd(instruction, ctx) ==
    [ctx EXCEPT !.blockStack = ctx.blockStack \o <<instruction.blockName>>]

\* the block stack inside the body of a block instruction
pushBlock(instruction, ctx) ==
    [ctx EXCEPT !.blockStack = <<instruction.blockName>> \o ctx.blockStack]

RECURSIVE emitInstruction(_, _)
RECURSIVE emitFlattenedInstructions(_, _)

emitInstructions(instructions, ctx) ==
    emitFlattenedInstructions(flattenInstructions(instructions), ctx)

\* the immediates with the record of the instruction that wrote them
Logged(instruction, ctx, immediates) ==
    [immediates EXCEPT
        !.log = <<IF Failed(immediates)
                  THEN ThrewEntry(instruction, ctx, immediates.bytes)
                  ELSE LogEntry(instruction, ctx, immediates.bytes)>>]

emitInstruction(instruction, ctx) ==
    LET opcode == emitBytes(opcodeNameToBytes[instruction.opcodeName])
        logged == Logged(instruction, ctx,
                         IF instruction.emitter # ""
                         THEN immediatesEmitter(instruction, ctx)
                         ELSE Nothing)
        body == IF isBlockInstruction(instruction)
                THEN emitInstructions(instruction.bodyInstructions,
                                      pushBlock(instruction, ctx))
                ELSE Nothing
    IN  Then(opcode, Then(logged, body))


RECURSIVE emitFlattenedInstructions_SharedContext(_, _)
\* a faulty loop: a block pushes its name on the context of the loop itself
\* instead of on a copy, so the instructions after the block still see it
emitFlattenedInstructions_SharedContext(instructions, ctx) ==
    IF instructions = <<>> THEN Nothing
    ELSE Then(emitInstruction(Head(instructions), ctx),
              emitFlattenedInstructions_SharedContext(
                  Tail(instructions),
                  IF isBlockInstruction(Head(instructions))
                  THEN pushBlock(Head(instructions), ctx)
                  ELSE ctx))

emitFlattenedInstructions(instructions, ctx) ==
    IF instructions = <<>> THEN Nothing
    ELSE Then(emitInstruction(Head(instructions), ctx),
              emitFlattenedInstructions(Tail(instructions), ctx))

emitLengthPrefixedInstructionsArray(instructionsArray, ctx) ==
    LET flattenedInstructions == flattenInstructions(instructionsArray)
    IN  Then(emitUint(Len(flattenedInstructions)),
             emitFlattenedInstructions(flattenedInstructions, ctx))

-----------------------------------------------------------------------------
(* Section emitters (WasmBuilder)                                          *)

SectionCustom == 0
SectionTypes == 1
SectionImports == 2
SectionFunctions == 3
SectionTables == 4
SectionMemory == 5
SectionGlobals == 6
SectionExports == 7
SectionStart == 8
SectionElements == 9
SectionCode == 10
SectionData == 11
SectionDataCount == 12

preamble == <<0, 97, 115, 109, 1, 0, 0, 0>>

\* const sectionBuilder = createWasmBuilder(): a builder with an empty sink
createWasmBuilder == <<>>

\* fault variant: the bytes of a builder that failed are written to its parent
spliceBuilder_KeepFailed(sectionBuilder) == sectionBuilder

\* this.emitLengthPrefixedBytes(sectionBuilder.bytes), reached only when nothing
\* threw while the section builder was filled; its partial bytes are dropped otherwise
spliceBuilder(sectionBuilder) ==
    IF Failed(sectionBuilder)
    THEN [sectionBuilder EXCEPT !.bytes = <<>>]
    ELSE [emitLengthPrefixedBytes(createWasmBuilder \o sectionBuilder.bytes)
             EXCEPT !.log = sectionBuilder.log]

\* this.emitByte(id); fill the section builder; this.emitLengthPrefixedBytes(its bytes)
emitSection(id, sectionBuilder) == Then(emitByte(id), spliceBuilder(sectionBuilder))

emitPreamble == emitBytes(preamble)

emitStructType(structType) ==
    Then(emitUint(Len(structType.fields)),
         ThenAll([i \in 1..Len(structType.fields) |->
                     Then(emitStorageType(structType.fields[i].storageType),
                          emitByte(IF structType.fields[i].mutable THEN 1 ELSE 0))], 1))

emitCompositeType(type) ==
    IF type.shape = "array" THEN Then(emitByte(94), emitStorageType(type.storageType))
    ELSE IF type.shape = "struct" THEN Then(emitByte(95), emitStructType(type))
    ELSE IF type.shape = "func" THEN Then(emitByte(96), emitFunctionSignature(type))
    ELSE Throw("MalformedInput", "compositeType")

emitSubtype(subtype) ==
    Then(IF subtype.hasSupertypes
         THEN Then(emitByte(IF subtype.final THEN 79 ELSE 80),
                   emitLengthPrefixedUintArray(subtype.supertypeIndexes))
         ELSE Nothing,
         emitCompositeType(subtype.type))

emitRecursiveType(type) ==
    Then(emitByte(78),
         Then(emitUint(Len(type.subtypes)),
              ThenAll([i \in 1..Len(type.subtypes) |-> emitSubtype(type.subtypes[i])], 1)))

emitSubtypeOrRecursiveType(type) ==
    IF type.isRecursive THEN emitRecursiveType(type) ELSE emitSubtype(type)

\* a faulty emitTypesSection: without the return on an empty list
emitTypesSection_Unguarded(types) ==
    emitSection(SectionTypes,
        Then(emitUint(Len(types)),
             ThenAll([i \in 1..Len(types) |-> emitSubtypeOrRecursiveType(types[i])], 1)))

emitTypesSection(types) ==
    IF Len(types) = 0 THEN Nothing
    ELSE emitSection(SectionTypes,
             Then(emitUint(Len(types)),
                  ThenAll([i \in 1..Len(types) |-> emitSubtypeOrRecursiveType(types[i])], 1)))

emitImportEntry(entry) ==
    LET description == entry.description
    IN  Then(emitString(entry.moduleName),
        Then(emitString(entry.importName),
        Then(emitByte(description.type),
             IF description.type = 0 THEN emitUint(description.index)
             ELSE IF description.type = 1 THEN emitTableEntry(description.tableEntry)
             ELSE IF description.type = 2 THEN emitLimits(description.memoryLimits)
             ELSE IF description.type = 3 THEN emitGlobalType(description.globalType)
             ELSE Throw("MalformedInput", "importKind"))))

emitImportsSection(importEntries) ==
    IF Len(importEntries) = 0 THEN Nothing
    ELSE emitSection(SectionImports,
             Then(emitUint(Len(importEntries)),
                  ThenAll([i \in 1..Len(importEntries) |-> emitImportEntry(importEntries[i])], 1)))

\* a faulty emitFunctionsSection: without the return on an empty list
emitFunctionsSection_Unguarded(functionDefinitions) ==
    LET functionIndexes == [i \in 1..Len(functionDefinitions) |-> i - 1]
    IN  emitSection(SectionFunctions, emitLengthPrefixedUintArray(functionIndexes))

emitFunctionsSection(functionDefinitions) ==
    IF Len(functionDefinitions) = 0 THEN Nothing
    ELSE LET functionIndexes == [i \in 1..Len(functionDefinitions) |-> i - 1]
         IN  emitSection(SectionFunctions, emitLengthPrefixedUintArray(functionIndexes))

emitTablesSection(tableEntries) ==
    IF Len(tableEntries) = 0 THEN Nothing
    ELSE emitSection(SectionTables,
             Then(emitUint(Len(tableEntries)),
                  ThenAll([i \in 1..Len(tableEntries) |-> emitTableEntry(tableEntries[i])], 1)))

emitMemoriesSection(memoryEntries) ==
    IF Len(memoryEntries) = 0 THEN Nothing
    ELSE emitSection(SectionMemory,
             Then(emitUint(Len(memoryEntries)),
                  ThenAll([i \in 1..Len(memoryEntries) |-> emitLimits(memoryEntries[i])], 1)))

emitGlobalsSection(globalEntries, instructionContext) ==
    IF Len(globalEntries) = 0 THEN Nothing
    ELSE emitSection(SectionGlobals,
             Then(emitUint(Len(globalEntries)),
                  ThenAll([i \in 1..Len(globalEntries) |->
                              Then(emitGlobalType(globalEntries[i]),
                                   emitInstructions(globalEntries[i].instructions,
                                                    instructionContext))], 1)))

emitExportsSection(exportEntries) ==
    IF Len(exportEntries) = 0 THEN Nothing
    ELSE emitSection(SectionExports,
             Then(emitUint(Len(exportEntries)),
                  ThenAll([i \in 1..Len(exportEntries) |->
                              Then(emitString(exportEntries[i].name),
                              Then(emitByte(exportEntries[i].kind),
                                   emitUint(exportEntries[i].index)))], 1)))

emitStartSection(startEntry) ==
    emitSection(SectionStart, encodeUint(startEntry.functionIndex))

emitElementEntry(entry, instructionContext) ==
    LET elementKind == 0
        offset == emitInstructions(entry.instructions, instructionContext)
        funcs == emitLengthPrefixedUintArray(entry.functionIndexes)
        exprs == emitLengthPrefixedInstructionsArray(entry.functionInstructions,
                                                     instructionContext)
    IN  Then(emitByte(entry.flags),
             IF entry.flags = 0 THEN Then(offset, funcs)
             ELSE IF entry.flags = 1 THEN Then(emitByte(elementKind), funcs)
             ELSE IF entry.flags = 2 THEN
                 Then(emitUint(entry.tableIndex),
                      Then(offset, Then(emitByte(elementKind), funcs)))
             ELSE IF entry.flags = 3 THEN Then(emitByte(elementKind), funcs)
             ELSE IF entry.flags = 4 THEN Then(offset, exprs)
             ELSE IF entry.flags = 5 THEN Then(emitReferenceType(entry.referenceType), exprs)
             ELSE IF entry.flags = 6 THEN
                 Then(emitUint(entry.tableIndex),
                      Then(offset, Then(emitReferenceType(entry.referenceType), exprs)))
             ELSE IF entry.flags = 7 THEN Then(emitReferenceType(entry.referenceType), exprs)
             ELSE Throw("MalformedInput", "elementFlags"))

emitElementsSection(elementEntries, instructionContext) ==
    IF Len(elementEntries) = 0 THEN Nothing
    ELSE emitSection(SectionElements,
             Then(emitUint(Len(elementEntries)),
                  ThenAll([i \in 1..Len(elementEntries) |->
                              emitElementEntry(elementEntries[i], instructionContext)], 1)))

emitDataCountSection(dataCount) == emitSection(SectionDataCount, encodeUint(dataCount))

\* a faulty locals lookup: the declared locals numbered before the parameters
functionLocalsLookup_LocalsFirst(entry) ==
    MapSetAll(EmptyMap, entry.locals \o entry.params, 0, 1)

\* localNames.forEach((name, index) => localsLookup.set(name, index)) on a new Map
functionLocalsLookup(entry) == MapSetAll(EmptyMap, entry.params \o entry.locals, 0, 1)

\* the context the instructions of a function are emitted with
functionContext(entry, instructionContext) ==
    [instructionContext EXCEPT !.localsLookup = functionLocalsLookup(entry)]

\* the entryBuilder of one function: locals count, one group per local, instructions
emitFunctionBody(entry, instructionContext) ==
    LET localTypes == [i \in 1..Len(entry.locals) |-> entry.locals[i].type]
    IN  Then(emitUint(Len(localTypes)),
        Then(ThenAll([i \in 1..Len(localTypes) |->
                         Then(emitUint(1), emitValueType(localTypes[i]))], 1),
             emitInstructions(entry.instructions,
                              functionContext(entry, instructionContext))))

\* fault variant: the locals lookup of the first function is not replaced
\* when the next function is entered
emitCodeSection_LocalsKept(functionDefinitions, instructionContext) ==
    IF Len(functionDefinitions) = 0 THEN Nothing
    ELSE emitSection(SectionCode,
             Then(emitUint(Len(functionDefinitions)),
                  ThenAll([i \in 1..Len(functionDefinitions) |->
                              spliceBuilder(emitFunctionBody(
                                  [functionDefinitions[i] EXCEPT
                                      !.params = functionDefinitions[1].params,
                                      !.locals = IF i = 1 THEN @ ELSE <<>>],
                                  instructionContext))], 1)))

emitCodeSection(functionDefinitions, instructionContext) ==
    IF Len(functionDefinitions) = 0 THEN Nothing
    ELSE emitSection(SectionCode,
             Then(emitUint(Len(functionDefinitions)),
                  ThenAll([i \in 1..Len(functionDefinitions) |->
                              spliceBuilder(emitFunctionBody(functionDefinitions[i],
                                                             instructionContext))], 1)))

emitDataEntry(entry, instructionContext) ==
    Then(emitByte(entry.flags),
         IF entry.flags = 0 THEN
             Then(emitInstructions(entry.instructions, instructionContext),
                  emitLengthPrefixedBytes(entry.data))
         ELSE IF entry.flags = 2 THEN
             Then(emitUint(entry.memoryIndex),
                  Then(emitInstructions(entry.instructions, instructionContext),
                       emitLengthPrefixedBytes(entry.data)))
         ELSE IF entry.flags = 1 THEN emitLengthPrefixedBytes(entry.data)
         ELSE Throw("MalformedInput", "dataFlags"))

emitDataSection(dataEntries, instructionContext) ==
    IF Len(dataEntries) = 0 THEN Nothing
    ELSE emitSection(SectionData,
             Then(emitUint(Len(dataEntries)),
                  ThenAll([i \in 1..Len(dataEntries) |->
                              emitDataEntry(dataEntries[i], instructionContext)], 1)))

emitCustomSection(customSection) ==
    emitSection(SectionCustom,
                Then(emitString(customSection.name), emitBytes(customSection.content)))

-----------------------------------------------------------------------------
(* emitModule: preparation of the resolution context and of the exports    *)

ExportKindFunction == 0
ExportKindTable == 1
ExportKindMemory == 2
ExportKindGlobal == 3

RECURSIVE exportsOf_EveryEntry(_, _, _)
\* fault variant: every entry is exported, flagged or not
exportsOf_EveryEntry(entries, kind, i) ==
    IF i > Len(entries) THEN <<>>
    ELSE <<[name |-> entries[i].name, kind |-> kind, index |-> i - 1]>>
             \o exportsOf_EveryEntry(entries, kind, i + 1)

RECURSIVE exportsOf(_, _, _)
\* entries.forEach((entry, index) => { if (entry.export) exportsDefinitions.push(...) })
exportsOf(entries, kind, i) ==
    IF i > Len(entries) THEN <<>>
    ELSE (IF entries[i].export
          THEN <<[name |-> entries[i].name, kind |-> kind, index |-> i - 1]>>
          ELSE <<>>) \o exportsOf(entries, kind, i + 1)

\* the exportsDefinitions of emitModule, in the order the forEach loops push them
collectExports(definition) ==
    exportsOf(definition.functions, ExportKindFunction, 1)
        \o exportsOf(definition.tables, ExportKindTable, 1)
        \o exportsOf(definition.globals, ExportKindGlobal, 1)
        \o exportsOf(definition.memories, ExportKindMemory, 1)

\* a faulty types lookup: the custom types numbered from 0
buildTypesLookup_CustomTypesFromZero(definition) ==
    MapSetAll(MapSetAll(EmptyMap, definition.functions, 0, 1),
              definition.customTypes, 0, 1)

\* typesLookup: the functions by index, then the custom types after them
buildTypesLookup(definition) ==
    MapSetAll(MapSetAll(EmptyMap, definition.functions, 0, 1),
              definition.customTypes, Len(definition.functions), 1)

\* globalInstructionContext as emitModule fills it before emitting
buildContext(definition) ==
    [functionsLookup |-> MapSetAll(EmptyMap, definition.functions, 0, 1),
     typesLookup |-> buildTypesLookup(definition),
     tablesLookup |-> MapSetAll(EmptyMap, definition.tables, 0, 1),
     memoriesLookup |-> MapSetAll(EmptyMap, definition.memories, 0, 1),
     globalsLookup |-> MapSetAll(EmptyMap, definition.globals, 0, 1),
     elementsLookup |-> MapSetAll(EmptyMap, definition.elements, 0, 1),
     dataLookup |-> EmptyMap,
     localsLookup |-> EmptyMap,
     blockStack |-> <<>>]

\* the context object before emitModule has filled it
emptyContext ==
    [functionsLookup |-> EmptyMap, typesLookup |-> EmptyMap, tablesLookup |-> EmptyMap,
     memoriesLookup |-> EmptyMap, globalsLookup |-> EmptyMap, elementsLookup |-> EmptyMap,
     dataLookup |-> EmptyMap, localsLookup |-> EmptyMap, blockStack |-> <<>>]

functionSignature(entry) ==
    [paramTypes |-> [i \in 1..Len(entry.params) |-> entry.params[i].type],
     returnTypes |-> entry.returns]

\* const functionTypes = functionSignatures.map(signature => ({ type: signature }))
functionType(entry) ==
    [name |-> "", isRecursive |-> FALSE, subtypes |-> <<>>, hasSupertypes |-> FALSE,
     supertypeIndexes |-> <<>>, final |-> FALSE,
     type |-> [shape |-> "func", storageType |-> NoType, mutable |-> FALSE, fields |-> <<>>,
               paramTypes |-> functionSignature(entry).paramTypes,
               returnTypes |-> functionSignature(entry).returnTypes]]

\* [...functionTypes, ...customTypeDefinitions]
allTypes(definition) ==
    [i \in 1..Len(definition.functions) |-> functionType(definition.functions[i])]
        \o definition.customTypes

-----------------------------------------------------------------------------
(* Actions: buildWasmModule and the calls of emitModule, in order          *)

NoResult == [threw |-> FALSE, given |-> FALSE, bytes |-> <<>>]

\* a faulty order of calls: the code section written before the data count
emitModuleOrder_CodeBeforeDataCount ==
    <<"preamble", "types", "imports", "functions", "tables", "memories", "globals",
      "exports", "start", "elements", "code", "dataCount", "data", "custom">>

\* the calls of emitModule below "Emit the module", in the order of the source
emitModuleOrder ==
    <<"preamble", "types", "imports", "functions", "tables", "memories", "globals",
      "exports", "start", "elements", "dataCount", "code", "data", "custom">>

\* the call that follows `step` in emitModule
After(step) ==
    emitModuleOrder[1 + CHOOSE i \in 1..(Len(emitModuleOrder) - 1) : emitModuleOrder[i] = step]

\* one call of emitModule's body on the module builder: append what it wrote,
\* and go on to `next` unless it threw
Step(r, next) ==
    /\ outputBytes' = outputBytes \o r.bytes
    /\ emitted' = emitted \o r.log
    /\ error' = r.err
    /\ pc' = IF Failed(r) THEN "threw" ELSE next

Unchanged == UNCHANGED <<moduleDefinition, context, exportsDefinitions, customIndex,
                         codeEntries, opcodeNameToBytes, anonymousBlockCounter,
                         returned, subject, otherDefinition, firstReturned, calls, input, sink, appended>>

\* a faulty buildWasmModule: one module builder kept for all calls, so that a
\* call writes after the bytes of the call before it
BuildWasmModule_SharedBuilder ==
    /\ pc = "idle"
    /\ pc' = "emitModule"
    /\ outputBytes' = outputBytes
    /\ context' = emptyContext
    /\ exportsDefinitions' = <<>>
    /\ customIndex' = 1
    /\ error' = NoError
    /\ emitted' = <<>>
    /\ codeEntries' = <<>>
    /\ calls' = Append(calls, IF moduleDefinition = subject THEN "subject" ELSE "other")
    /\ UNCHANGED <<moduleDefinition, opcodeNameToBytes, anonymousBlockCounter,
                   returned, subject, otherDefinition, firstReturned, input, sink, appended>>

\* buildWasmModule(moduleDefinition): const moduleBuilder = createWasmBuilder()
BuildWasmModule ==
    /\ pc = "idle"
    /\ pc' = "emitModule"
    /\ outputBytes' = createWasmBuilder
    /\ context' = emptyContext
    /\ exportsDefinitions' = <<>>
    /\ customIndex' = 1
    /\ error' = NoError
    /\ emitted' = <<>>
    /\ codeEntries' = <<>>
    /\ calls' = Append(calls, IF moduleDefinition = subject THEN "subject" ELSE "other")
    /\ UNCHANGED <<moduleDefinition, opcodeNameToBytes, anonymousBlockCounter,
                   returned, subject, otherDefinition, firstReturned, input, sink, appended>>

\* emitModule up to "Emit the module": the lookups and the exports
EmitModulePrepare ==
    /\ pc = "emitModule"
    /\ context' = buildContext(moduleDefinition)
    /\ exportsDefinitions' = collectExports(moduleDefinition)
    /\ pc' = emitModuleOrder[1]
    /\ UNCHANGED <<moduleDefinition, outputBytes, customIndex, error, emitted, codeEntries,
                   opcodeNameToBytes, anonymousBlockCounter, returned, subject,
                   otherDefinition, firstReturned, calls, input, sink, appended>>

EmitPreamble ==
    /\ pc = "preamble"
    /\ Step(emitPreamble, After("preamble"))
    /\ Unchanged

EmitTypesSection ==
    /\ pc = "types"
    /\ Step(emitTypesSection(allTypes(moduleDefinition)), After("types"))
    /\ Unchanged

EmitImportsSection ==
    /\ pc = "imports"
    /\ Step(emitImportsSection(moduleDefinition.imports), After("imports"))
    /\ Unchanged

EmitFunctionsSection ==
    /\ pc = "functions"
    /\ Step(emitFunctionsSection(moduleDefinition.functions), After("functions"))
    /\ Unchanged

EmitTablesSection ==
    /\ pc = "tables"
    /\ Step(emitTablesSection(moduleDefinition.tables), After("tables"))
    /\ Unchanged

EmitMemoriesSection ==
    /\ pc = "memories"
    /\ Step(emitMemoriesSection(moduleDefinition.memories), After("memories"))
    /\ Unchanged

EmitGlobalsSection ==
    /\ pc = "globals"
    /\ Step(emitGlobalsSection(moduleDefinition.globals, context), After("globals"))
    /\ Unchanged

EmitExportsSection ==
    /\ pc = "exports"
    /\ Step(emitExportsSection(exportsDefinitions), After("exports"))
    /\ Unchanged

\* if (startDefinition) { this.emitStartSection(startDefinition) }
EmitStartSection ==
    /\ pc = "start"
    /\ Step(IF moduleDefinition.start.present
            THEN emitStartSection(moduleDefinition.start)
            ELSE Nothing, After("start"))
    /\ Unchanged

EmitElementsSection ==
    /\ pc = "elements"
    /\ Step(emitElementsSection(moduleDefinition.elements, context), After("elements"))
    /\ Unchanged

\* if (dataDefinitions.length > 0) { this.emitDataCountSection(dataDefinitions.length) }
EmitDataCountSection ==
    /\ pc = "dataCount"
    /\ Step(IF Len(moduleDefinition.data) > 0
            THEN emitDataCountSection(Len(moduleDefinition.data))
            ELSE Nothing, After("dataCount"))
    /\ Unchanged

EmitCodeSection ==
    /\ pc = "code"
    /\ Step(emitCodeSection(moduleDefinition.functions, context), After("code"))
    /\ codeEntries' = [i \in 1..Len(moduleDefinition.functions) |->
                          emitFunctionBody(moduleDefinition.functions[i], context).bytes]
    /\ UNCHANGED <<moduleDefinition, context, exportsDefinitions, customIndex,
                   opcodeNameToBytes, anonymousBlockCounter, returned, subject,
                   otherDefinition, firstReturned, calls, input, sink, appended>>

EmitDataSection ==
    /\ pc = "data"
    /\ Step(emitDataSection(moduleDefinition.data, context), After("data"))
    /\ customIndex' = 1
    /\ UNCHANGED <<moduleDefinition, context, exportsDefinitions, codeEntries,
                   opcodeNameToBytes, anonymousBlockCounter, returned, subject,
                   otherDefinition, firstReturned, calls, input, sink, appended>>

\* one turn of: for (const customSection of customSections) this.emitCustomSection(...)
EmitCustomSection ==
    /\ pc = "custom"
    /\ customIndex <= Len(moduleDefinition.customSections)
    /\ Step(emitCustomSection(moduleDefinition.customSections[customIndex]), "custom")
    /\ customIndex' = customIndex + 1
    /\ UNCHANGED <<moduleDefinition, context, exportsDefinitions, codeEntries,
                   opcodeNameToBytes, anonymousBlockCounter, returned, subject,
                   otherDefinition, firstReturned, calls, input, sink, appended>>

\* what buildWasmModule hands back: Uint8Array.from(the builder's bytes)
bytesAsUint8Array == [i \in 1..Len(outputBytes) |-> outputBytes[i] % 256]

\* emitModule returns; return moduleBuilder.bytesAsUint8Array
Return ==
    /\ pc = "custom"
    /\ customIndex > Len(moduleDefinition.customSections)
    /\ pc' = "done"
    /\ returned' = [threw |-> FALSE, given |-> TRUE, bytes |-> bytesAsUint8Array]
    /\ firstReturned' = IF moduleDefinition = subject /\ ~firstReturned.given
                        THEN [threw |-> FALSE, given |-> TRUE, bytes |-> bytesAsUint8Array]
                        ELSE firstReturned
    /\ UNCHANGED <<moduleDefinition, outputBytes, context, exportsDefinitions, customIndex,
                   error, emitted, codeEntries, opcodeNameToBytes, anonymousBlockCounter,
                   subject, otherDefinition, calls, input, sink, appended>>

\* the error leaves emitModule and buildWasmModule: the caller is given no bytes
Raise ==
    /\ pc = "threw"
    /\ pc' = "failed"
    /\ returned' = [threw |-> TRUE, given |-> TRUE, bytes |-> <<>>]
    /\ firstReturned' = IF moduleDefinition = subject /\ ~firstReturned.given
                        THEN [threw |-> TRUE, given |-> TRUE, bytes |-> <<>>]
                        ELSE firstReturned
    /\ UNCHANGED <<moduleDefinition, outputBytes, context, exportsDefinitions, customIndex,
                   error, emitted, codeEntries, opcodeNameToBytes, anonymousBlockCounter,
                   subject, otherDefinition, calls, input, sink, appended>>

EmitModuleStep ==
    \/ EmitModulePrepare
    \/ EmitPreamble
    \/ EmitTypesSection
    \/ EmitImportsSection
    \/ EmitFunctionsSection
    \/ EmitTablesSection
    \/ EmitMemoriesSection
    \/ EmitGlobalsSection
    \/ EmitExportsSection
    \/ EmitStartSection
    \/ EmitElementsSection
    \/ EmitDataCountSection
    \/ EmitCodeSection
    \/ EmitDataSection
    \/ EmitCustomSection
    \/ Return
    \/ Raise

-----------------------------------------------------------------------------
(* Module definitions the encoder is run on                                *)

MaxFunctions == 2
MaxCustomSections == 2
MaxCustomTypes == 2
MaxEntities == 3
MaxParams == 2
MaxLocals == 2
MaxDepth == 3
MaxTargets == 2

\* the name of the i-th declared entity of a kind, when names are distinct
Names == <<"a", "b", "c", "d", "m", "n">>

FunctionDefinition(name, export, params, returns, locals, instructions) ==
    [name |-> name, export |-> export, params |-> params, returns |-> returns,
     locals |-> locals, instructions |-> instructions]

Typed(name, type) == [name |-> name, type |-> type]

funcref == ReferenceType(0, HeapTypeFunc, 0)

TableEntry(name, export) ==
    [name |-> name, referenceType |-> funcref,
     limits |-> [minimum |-> 1, maximum |-> undefined], export |-> export]

MemoryEntry(name, export) ==
    [name |-> name, minimum |-> 1, maximum |-> 2, export |-> export]

GlobalEntry(name, export, instructions) ==
    [name |-> name, type |-> NumberType(i32), mutable |-> FALSE,
     instructions |-> instructions, export |-> export]

\* a passive element segment of function indexes (flags 1)
PassiveElementEntry(name) ==
    [name |-> name, flags |-> 1, tableIndex |-> 0, instructions |-> <<>>,
     functionIndexes |-> <<0>>, referenceType |-> funcref, functionInstructions |-> <<>>]

\* a passive data segment (flags 1)
PassiveDataEntry(name) ==
    [name |-> name, flags |-> 1, memoryIndex |-> 0, instructions |-> <<>>, data |-> <<7, 8>>]

\* a custom struct type of one mutable i32 field
StructSubtype(name) ==
    [name |-> name, isRecursive |-> FALSE, subtypes |-> <<>>, hasSupertypes |-> FALSE,
     supertypeIndexes |-> <<>>, final |-> FALSE,
     type |-> [shape |-> "struct", storageType |-> NoType, mutable |-> FALSE,
               fields |-> <<[storageType |-> NumberType(i32), mutable |-> TRUE]>>,
               paramTypes |-> <<>>, returnTypes |-> <<>>]]

FunctionImport ==
    [moduleName |-> "m", importName |-> "n",
     description |-> [type |-> 0, index |-> 0]]

CustomSection(i) == [name |-> Names[i], content |-> <<i, 200>>]

NoStart == [present |-> FALSE, functionIndex |-> 0]

StartEntry(functionIndex) == [present |-> TRUE, functionIndex |-> functionIndex]

\* moduleDefinition.<field> ?? [] for every field: {} is EmptyModule
EmptyModule ==
    [functions |-> <<>>, customTypes |-> <<>>, imports |-> <<>>, tables |-> <<>>,
     memories |-> <<>>, globals |-> <<>>, start |-> NoStart, elements |-> <<>>,
     data |-> <<>>, customSections |-> <<>>]

ConstZero == <<Op_i32_const(0), Op_end>>

\* n entities, the i-th made by Make(i)
Several(n, Make(_)) == [i \in 1..n |-> Make(i)]

-----------------------------------------------------------------------------
(* Inputs that differ in which sections have entries                       *)

SectionInputs ==
    [pool : {"sections"}, functions : {0, MaxFunctions}, customTypes : BOOLEAN,
     imports : BOOLEAN, tables : BOOLEAN, memories : BOOLEAN, globals : BOOLEAN,
     start : BOOLEAN, elements : BOOLEAN, data : BOOLEAN,
     customSections : {0, MaxCustomSections}, export : BOOLEAN]

SectionModule(in) ==
    LET One(flag, entry) == IF flag THEN <<entry>> ELSE <<>>
        Function(i) == FunctionDefinition(Names[i], in.export,
                                          Several(i - 1, LAMBDA j : Typed(Names[j], NumberType(i32))),
                                          <<NumberType(i32)>>, <<>>, ConstZero)
    IN  [functions |-> Several(in.functions, Function),
         customTypes |-> One(in.customTypes, StructSubtype("n")),
         imports |-> One(in.imports, FunctionImport),
         tables |-> One(in.tables, TableEntry("a", in.export)),
         memories |-> One(in.memories, MemoryEntry("a", in.export)),
         globals |-> One(in.globals, GlobalEntry("a", in.export, ConstZero)),
         start |-> IF in.start THEN StartEntry(0) ELSE NoStart,
         elements |-> One(in.elements, PassiveElementEntry("a")),
         data |-> One(in.data, PassiveDataEntry("a")),
         customSections |-> Several(in.customSections, CustomSection)]

-----------------------------------------------------------------------------
(* Inputs that differ in the names of the functions and the custom types   *)

SeqsUpTo(S, n) == UNION {[1..k -> S] : k \in 0..n}

TypeInputs ==
    [pool : {"types"}, functionNames : SeqsUpTo({"a", "b"}, MaxFunctions),
     customTypeNames : SeqsUpTo({"a", "c"}, MaxCustomTypes)]

\* the i-th function has i parameters, so that every signature tells its position
TypeModule(in) ==
    LET Function(i) == FunctionDefinition(in.functionNames[i], FALSE,
                                          Several(i, LAMBDA j : Typed(Names[j], NumberType(i32))),
                                          <<NumberType(i64)>>, <<>>, ConstZero)
    IN  [EmptyModule EXCEPT
            !.functions = Several(Len(in.functionNames), Function),
            !.customTypes = Several(Len(in.customTypeNames),
                                    LAMBDA j : StructSubtype(in.customTypeNames[j]))]

-----------------------------------------------------------------------------
(* Inputs with one instruction that refers to an entity by name            *)

ReferenceKinds ==
    {"call", "table.get", "memory.size", "global.get", "table.init", "data.drop",
     "memory.init"}

\* count entities of every kind, named Names[1..count]; the instruction refers to
\* the entities number first and second (second is used by the two-name kinds)
ReferenceInputs ==
    {in \in [pool : {"reference"}, kind : ReferenceKinds, count : 1..MaxEntities,
             first : 1..MaxEntities, second : 1..MaxEntities] :
        /\ in.first <= in.count
        /\ in.second <= in.count
        /\ in.kind \in {"table.init", "memory.init"} \/ in.second = 1}

ReferenceInstruction(in) ==
    LET x == Names[in.first]
        y == Names[in.second]
    IN  CASE in.kind = "call" -> Op_call(x)
          [] in.kind = "table.get" -> createTableInstruction("table.get", x)
          [] in.kind = "memory.size" -> createMemoryInstruction("memory.size", x)
          [] in.kind = "global.get" -> createNamedGlobalInstruction("global.get", x)
          [] in.kind = "table.init" -> Op_table_init(x, y)
          [] in.kind = "data.drop" -> Op_data_drop(x)
          [] in.kind = "memory.init" -> Op_memory_init(x, y)

ReferenceModule(in) ==
    LET Function(i) == FunctionDefinition(Names[i], FALSE, <<>>, <<>>, <<>>,
                                          IF i = 1
                                          THEN <<ReferenceInstruction(in), Op_end>>
                                          ELSE <<Op_end>>)
    IN  [EmptyModule EXCEPT
            !.functions = Several(in.count, Function),
            !.tables = Several(in.count, LAMBDA i : TableEntry(Names[i], FALSE)),
            !.memories = Several(in.count, LAMBDA i : MemoryEntry(Names[i], FALSE)),
            !.globals = Several(in.count, LAMBDA i : GlobalEntry(Names[i], FALSE, ConstZero)),
            !.elements = Several(in.count, LAMBDA i : PassiveElementEntry(Names[i])),
            !.data = Several(in.count, LAMBDA i : PassiveDataEntry(Names[i]))]

-----------------------------------------------------------------------------
(* Inputs with one function that reads or writes a parameter or a local    *)

LocalOpcodes == {"local.get", "local.set", "local.tee"}

\* params parameters named Names[1..params], then locals declared locals named
\* Names[params+1..params+locals]; the instruction refers to variable `target`
LocalInputs ==
    {in \in [pool : {"locals"}, params : 0..MaxParams, locals : 0..MaxLocals,
             opcodeName : LocalOpcodes, target : 1..(MaxParams + MaxLocals)] :
        in.target <= in.params + in.locals}

\* the type of the k-th declared local: i64, i32, i64, ...
LocalType(k) == IF k % 2 = 1 THEN NumberType(i64) ELSE NumberType(i32)

LocalModule(in) ==
    [EmptyModule EXCEPT
        !.functions =
            <<FunctionDefinition("a", TRUE,
                  Several(in.params, LAMBDA j : Typed(Names[j], NumberType(i32))),
                  <<>>,
                  Several(in.locals, LAMBDA k : Typed(Names[in.params + k], LocalType(k))),
                  <<createNamedLocalInstruction(in.opcodeName, Names[in.target]),
                    Op_end>>)>>]

-----------------------------------------------------------------------------
(* Inputs with a branch inside nested blocks                               *)

BlockKinds == <<"block", "loop", "if">>

\* the kind of the block at `level` (1 = outermost) under kind pattern p
KindAt(p, level) == BlockKinds[((level + p) % 3) + 1]

\* depth nested blocks; br and br_if go to targets[1], br_table to targets with
\* default defaultTarget; a target is the level of a block; counter is the value
\* of anonymousBlockCounter when the construction starts
BranchInputs ==
    {in \in [pool : {"branch"}, counter : {0}, depth : 1..MaxDepth, pattern : 0..2,
             opcodeName : {"br", "br_if", "br_table"},
             targets : SeqsUpTo(1..MaxDepth, MaxTargets),
             defaultTarget : 1..MaxDepth] :
        /\ \A i \in 1..Len(in.targets) : in.targets[i] <= in.depth
        /\ in.defaultTarget <= in.depth
        /\ in.opcodeName # "br_table" => Len(in.targets) = 1 /\ in.defaultTarget = 1}

\* the number of `if` blocks among the levels below `level`: Op.if of an inner
\* block is called before the Op.if of a block around it
IfsInside(in, level) ==
    Cardinality({l \in (level + 1)..in.depth : KindAt(in.pattern, l) = "if"})

\* the name of the block at `level`
BlockNameAt(in, level) ==
    IF KindAt(in.pattern, level) = "if"
    THEN ifBlockName(in.counter + IfsInside(in, level))
    ELSE Names[level]

BranchInstruction(in) ==
    IF in.opcodeName = "br_table"
    THEN Op_br_table([i \in 1..Len(in.targets) |-> BlockNameAt(in, in.targets[i])],
                     BlockNameAt(in, in.defaultTarget))
    ELSE createBranchInstruction(in.opcodeName, BlockNameAt(in, in.targets[1]))

RECURSIVE Nest(_, _)
\* the block at `level` with the blocks inside it, followed by its end
Nest(in, level) ==
    LET body == IF level = in.depth THEN <<BranchInstruction(in)>> ELSE Nest(in, level + 1)
    IN  <<IF KindAt(in.pattern, level) = "if"
          THEN Op_if(in.counter + IfsInside(in, level), NoType, body)
          ELSE createBlockInstruction(KindAt(in.pattern, level), Names[level], NoType, body),
          Op_end>>

BranchModule(in) ==
    [EmptyModule EXCEPT
        !.functions = <<FunctionDefinition("a", FALSE, <<>>, <<>>, <<>>,
                                           Nest(in, 1) \o <<Op_end>>)>>]

-----------------------------------------------------------------------------
(* Inputs with one instruction whose names may be undeclared               *)

OneNameKinds == {"call", "call_ref", "table.get", "memory.size", "global.get", "local.get"}

TwoNameKinds == {"call_indirect", "memory.copy", "br_table"}

BranchKinds ==
    {"br", "br_if", "br_on_null", "br_on_non_null", "br_on_cast", "br_on_cast_fail"}

\* a and b are declared in every kind, and are the blocks around the
\* instruction (a outside b); d is declared nowhere
NameChoices == {"a", "b", "d"}

NameInputs ==
    {in \in [pool : {"names"}, kind : OneNameKinds \cup TwoNameKinds \cup BranchKinds,
             first : NameChoices, second : NameChoices] :
        in.kind \in TwoNameKinds \/ in.second = "a"}

NameInstruction(in) ==
    LET x == in.first
        y == in.second
    IN  CASE in.kind = "call" -> Op_call(x)
          [] in.kind = "call_ref" -> Op_call_ref(x)
          [] in.kind = "table.get" -> createTableInstruction("table.get", x)
          [] in.kind = "memory.size" -> createMemoryInstruction("memory.size", x)
          [] in.kind = "global.get" -> createNamedGlobalInstruction("global.get", x)
          [] in.kind = "local.get" -> createNamedLocalInstruction("local.get", x)
          [] in.kind = "call_indirect" -> Op_call_indirect(x, y)
          [] in.kind = "memory.copy" -> Op_memory_copy(x, y)
          [] in.kind = "br_table" -> Op_br_table(<<x>>, y)
          [] in.kind \in {"br_on_cast", "br_on_cast_fail"} ->
               createBranchOnCastInstruction(in.kind, x, HeapTypeFunc, HeapTypeFunc, 1, 0)
          [] OTHER -> createBranchInstruction(in.kind, x)

NameModule(in) ==
    LET inner == createBlockInstruction("block", "b", NoType, <<NameInstruction(in)>>)
        outer == createBlockInstruction("block", "a", NoType, <<inner, Op_end>>)
        Function(i) ==
            IF i = 1
            THEN FunctionDefinition("a", FALSE, <<Typed("a", NumberType(i32))>>, <<>>,
                                    <<Typed("b", NumberType(i32))>>,
                                    <<outer, Op_end, Op_end>>)
            ELSE FunctionDefinition("b", FALSE, <<>>, <<>>, <<>>, <<Op_end>>)
    IN  [EmptyModule EXCEPT
            !.functions = Several(2, Function),
            !.tables = Several(2, LAMBDA i : TableEntry(Names[i], FALSE)),
            !.memories = Several(2, LAMBDA i : MemoryEntry(Names[i], FALSE)),
            !.globals = Several(2, LAMBDA i : GlobalEntry(Names[i], FALSE, ConstZero))]

-----------------------------------------------------------------------------
(* Inputs that differ in how the instructions are nested in sub-lists      *)

\* six ways to write four instructions as a list with sub-lists
Nestings == 1..6

Nested(nesting, x) ==
    CASE nesting = 1 -> <<x[1], x[2], x[3], x[4]>>
      [] nesting = 2 -> <<NestedList(<<x[1], x[2]>>), x[3], x[4]>>
      [] nesting = 3 -> <<x[1], NestedList(<<x[2], NestedList(<<x[3]>>)>>), x[4]>>
      [] nesting = 4 -> <<NestedList(<<NestedList(<<x[1]>>), NestedList(<<>>),
                                      NestedList(<<x[2], x[3]>>)>>),
                          NestedList(<<x[4]>>)>>
      [] nesting = 5 -> <<NestedList(<<NestedList(<<NestedList(<<x[1], x[2], x[3], x[4]>>)>>)>>)>>
      [] nesting = 6 -> <<NestedList(<<>>), x[1], NestedList(<<x[2]>>), NestedList(<<>>),
                          x[3], NestedList(<<x[4]>>)>>

NestingInputs == [pool : {"nesting"}, outer : Nestings, inner : Nestings]

\* the body of the block of a nesting input
NestingBlockBody(in) ==
    Nested(in.inner, <<Op_i32_const(2), Op_drop, Op_nop, Op_end>>)

\* the instructions of the function of a nesting input
NestingInstructions(in) ==
    Nested(in.outer, <<Op_i32_const(1),
                       createBlockInstruction("block", "a", NoType, NestingBlockBody(in)),
                       Op_drop, Op_end>>)

NestingModule(in) ==
    [EmptyModule EXCEPT
        !.functions = <<FunctionDefinition("a", FALSE, <<>>, <<>>, <<>>,
                                           NestingInstructions(in))>>]

-----------------------------------------------------------------------------
(* Inputs that differ in which declarations carry the export flag          *)

ExportInputs ==
    [pool : {"exports"}, functions : SUBSET {1, 2}, tables : SUBSET {1, 2},
     memories : SUBSET {1, 2}, globals : SUBSET {1, 2}]

ExportModule(in) ==
    [EmptyModule EXCEPT
        !.functions = Several(2, LAMBDA i : FunctionDefinition(Names[i], i \in in.functions,
                                                <<>>, <<>>, <<>>, <<Op_end>>)),
        !.tables = Several(2, LAMBDA i : TableEntry(Names[i], i \in in.tables)),
        !.memories = Several(2, LAMBDA i : MemoryEntry(Names[i], i \in in.memories)),
        !.globals = Several(2, LAMBDA i : GlobalEntry(Names[i], i \in in.globals, ConstZero))]

-----------------------------------------------------------------------------
(* Inputs whose tables and element segments have names of their own        *)

ElemDropInputs ==
    [pool : {"elem.drop"},
     tables : {<<>>, <<"a">>, <<"b", "a">>, <<"c">>},
     elements : {<<"a">>, <<"a", "b">>},
     name : {"a", "b", "c"}]

ElemDropModule(in) ==
    [EmptyModule EXCEPT
        !.functions = <<FunctionDefinition("a", FALSE, <<>>, <<>>, <<>>,
                                           <<Op_elem_drop(in.name), Op_end>>)>>,
        !.tables = Several(Len(in.tables), LAMBDA i : TableEntry(in.tables[i], FALSE)),
        !.elements = Several(Len(in.elements), LAMBDA i : PassiveElementEntry(in.elements[i]))]

-----------------------------------------------------------------------------
(* Inputs with one instruction placed in one of two functions or in the    *)
(* initialiser of a global, the offset of an element or of a data segment  *)

ScopePlaces == {"function 1", "function 2", "global", "element", "data"}

ScopeInputs ==
    [pool : {"scopes"}, place : ScopePlaces, kind : {"local.get", "global.get", "call"},
     name : {"a", "b", "c"}]

ScopeInstruction(in) ==
    CASE in.kind = "local.get" -> createNamedLocalInstruction("local.get", in.name)
      [] in.kind = "global.get" -> createNamedGlobalInstruction("global.get", in.name)
      [] in.kind = "call" -> Op_call(in.name)

\* function a has the parameter a and the local b, function b the parameter c
\* and the local a; the functions and the globals are called a, b, c
ScopeModule(in) ==
    LET At(place) == IF in.place = place THEN <<ScopeInstruction(in), Op_end>> ELSE ConstZero
        InBody(place) == IF in.place = place THEN <<ScopeInstruction(in), Op_end>> ELSE <<Op_end>>
    IN  [EmptyModule EXCEPT
            !.functions =
                <<FunctionDefinition("a", FALSE, <<Typed("a", NumberType(i32))>>, <<>>,
                                     <<Typed("b", NumberType(i32))>>, InBody("function 1")),
                  FunctionDefinition("b", FALSE, <<Typed("c", NumberType(i32))>>, <<>>,
                                     <<Typed("a", NumberType(i32))>>, InBody("function 2")),
                  FunctionDefinition("c", FALSE, <<>>, <<>>, <<>>, <<Op_end>>)>>,
            !.tables = <<TableEntry("a", FALSE)>>,
            !.memories = <<MemoryEntry("a", FALSE)>>,
            !.globals = <<GlobalEntry("a", FALSE, ConstZero),
                          GlobalEntry("b", FALSE, ConstZero),
                          GlobalEntry("c", FALSE, At("global"))>>,
            !.elements = <<[PassiveElementEntry("a") EXCEPT
                               !.flags = 0, !.instructions = At("element")]>>,
            !.data = <<[PassiveDataEntry("a") EXCEPT
                           !.flags = 0, !.instructions = At("data")]>>]

-----------------------------------------------------------------------------
(* Inputs with a branch at one place among sibling and nested blocks       *)

\* the places of the function body
\*   a [ 1, b [ 2 ], end, 3 ], end, 4, c [ 5 ], end, 6, end
\* one of which holds the branch, the others a nop
SiblingPlaces == 1..6

SiblingInputs ==
    [pool : {"siblings"}, kind : {"block", "loop"}, place : SiblingPlaces,
     opcodeName : {"br", "br_if"}, target : {"a", "b", "c"}]

SiblingInstructions(in) ==
    LET At(place) == IF in.place = place
                     THEN createBranchInstruction(in.opcodeName, in.target)
                     ELSE Op_nop
    IN  <<createBlockInstruction(in.kind, "a", NoType,
              <<At(1),
                createBlockInstruction("block", "b", NoType, <<At(2)>>), Op_end,
                At(3)>>),
          Op_end,
          At(4),
          createBlockInstruction(in.kind, "c", NoType, <<At(5)>>), Op_end,
          At(6),
          Op_end>>

SiblingModule(in) ==
    [EmptyModule EXCEPT
        !.functions = <<FunctionDefinition("a", FALSE, <<>>, <<>>, <<>>,
                                           SiblingInstructions(in))>>]

-----------------------------------------------------------------------------
(* Inputs with an element segment of initializer expressions               *)

\* the segment has the flags 4 to 7 and one expression, ref.func f end, for
\* every function name of `functions`; an expression is written as a sub-list
\* of functionInstructions, or all expressions as one flat list
ExpressionInputs ==
    [pool : {"expressions"}, flags : 4..7, functions : SeqsUpTo({"a", "b"}, 2),
     form : {"lists", "flat"}]

InitializerExpression(functionName) == <<Op_ref_func(functionName), Op_end>>

RECURSIVE FlatExpressions(_, _)
FlatExpressions(functionNames, i) ==
    IF i > Len(functionNames) THEN <<>>
    ELSE InitializerExpression(functionNames[i]) \o FlatExpressions(functionNames, i + 1)

ExpressionInstructions(in) ==
    IF in.form = "lists"
    THEN [i \in 1..Len(in.functions) |-> NestedList(InitializerExpression(in.functions[i]))]
    ELSE FlatExpressions(in.functions, 1)

ExpressionModule(in) ==
    [EmptyModule EXCEPT
        !.functions = Several(2, LAMBDA i : FunctionDefinition(Names[i], FALSE, <<>>, <<>>,
                                                               <<>>, <<Op_end>>)),
        !.tables = <<TableEntry("a", FALSE)>>,
        !.elements = <<[PassiveElementEntry("a") EXCEPT
                           !.flags = in.flags,
                           !.instructions = IF in.flags \in {4, 6} THEN ConstZero ELSE <<>>,
                           !.functionIndexes = <<>>,
                           !.functionInstructions = ExpressionInstructions(in)]>>]

-----------------------------------------------------------------------------
(* Inputs with a branch in the body of an if or of its else                *)

\* block a around block b around an if with an else; the branch to a or b is
\* in the if body or in the else body, the other body holds a nop; the else
\* is written inside the if body, as its last instruction, or after the if
ElseInputs ==
    [pool : {"else"}, style : {"inside", "after"}, place : {"if", "else"},
     opcodeName : {"br", "br_if"}, target : {"a", "b"}]

\* the value of anonymousBlockCounter when Op.if is called: the arguments of
\* a call are constructed before the call, so an else inside the if body is
\* named first
IfCounter(in) == IF in.style = "inside" THEN 1 ELSE 0

ElseCounter(in) == IF in.style = "inside" THEN 0 ELSE 1

ElseInstructions(in) ==
    LET At(place) == IF in.place = place
                     THEN createBranchInstruction(in.opcodeName, in.target)
                     ELSE Op_nop
        else == Op_else(ElseCounter(in), <<At("else")>>)
        conditional ==
            IF in.style = "inside"
            THEN <<Op_i32_const(1), Op_if(IfCounter(in), NoType, <<At("if"), else>>), Op_end>>
            ELSE <<Op_i32_const(1), Op_if(IfCounter(in), NoType, <<At("if")>>), else, Op_end>>
    IN  <<createBlockInstruction("block", "a", NoType,
              <<createBlockInstruction("block", "b", NoType, conditional), Op_end>>),
          Op_end, Op_end>>

ElseModule(in) ==
    [EmptyModule EXCEPT
        !.functions = <<FunctionDefinition("a", FALSE, <<>>, <<>>, <<>>,
                                           ElseInstructions(in))>>]

-----------------------------------------------------------------------------
(* Inputs whose entities of one kind share names                           *)

DuplicateKinds == {"call", "call_ref", "table.get", "memory.size", "global.get", "local.get"}

\* two or three entities of the kind the instruction refers to, called
\* names[1], names[2], ...: functions for call, custom types after the
\* functions a and b for call_ref, tables, memories, globals, and for local.get
\* the first `params` names are parameters and the others declared locals;
\* the instruction refers to `target`
DuplicateInputs ==
    {in \in [pool : {"duplicates"}, kind : DuplicateKinds,
             names : [1..2 -> {"a", "b"}] \cup [1..3 -> {"a", "b"}],
             params : 0..2, target : {"a", "b"}] :
        /\ in.kind = "call_ref" \/ \E i \in 1..Len(in.names) : in.names[i] = in.target
        /\ in.kind # "local.get" => in.params = 0
        /\ in.kind = "local.get" =>
               /\ in.params \in 1..(Len(in.names) - 1)
               /\ \A i, j \in 1..in.params : in.names[i] = in.names[j] => i = j
               /\ \A i, j \in (in.params + 1)..Len(in.names) :
                      in.names[i] = in.names[j] => i = j}

DuplicateInstruction(in) ==
    CASE in.kind = "call" -> Op_call(in.target)
      [] in.kind = "call_ref" -> Op_call_ref(in.target)
      [] in.kind = "table.get" -> createTableInstruction("table.get", in.target)
      [] in.kind = "memory.size" -> createMemoryInstruction("memory.size", in.target)
      [] in.kind = "global.get" -> createNamedGlobalInstruction("global.get", in.target)
      [] in.kind = "local.get" -> createNamedLocalInstruction("local.get", in.target)

\* the i-th entity tells its position: the i-th function has i parameters,
\* the i-th table and memory the minimum i, the i-th global the value i
DuplicateModule(in) ==
    LET k == Len(in.names)
        Body(i) == IF i = 1 THEN <<DuplicateInstruction(in), Op_end>> ELSE <<Op_end>>
        Function(name, i) ==
            FunctionDefinition(name, FALSE,
                               Several(i, LAMBDA j : Typed(Names[j], NumberType(i32))),
                               <<NumberType(i64)>>, <<>>, Body(i))
        Only == FunctionDefinition("a", FALSE, <<>>, <<>>, <<>>, Body(1))
    IN  CASE in.kind = "call" ->
                 [EmptyModule EXCEPT
                     !.functions = Several(k, LAMBDA i : Function(in.names[i], i))]
          [] in.kind = "call_ref" ->
                 [EmptyModule EXCEPT
                     !.functions = <<Function("a", 1), Function("b", 2)>>,
                     !.customTypes = Several(k, LAMBDA j : StructSubtype(in.names[j]))]
          [] in.kind = "table.get" ->
                 [EmptyModule EXCEPT
                     !.functions = <<Only>>,
                     !.tables = Several(k, LAMBDA i :
                                    [TableEntry(in.names[i], FALSE) EXCEPT !.limits.minimum = i])]
          [] in.kind = "memory.size" ->
                 [EmptyModule EXCEPT
                     !.functions = <<Only>>,
                     !.memories = Several(k, LAMBDA i :
                                      [MemoryEntry(in.names[i], FALSE) EXCEPT !.minimum = i])]
          [] in.kind = "global.get" ->
                 [EmptyModule EXCEPT
                     !.functions = <<Only>>,
                     !.globals = Several(k, LAMBDA i :
                                     GlobalEntry(in.names[i], FALSE,
                                                 <<Op_i32_const(i), Op_end>>))]
          [] in.kind = "local.get" ->
                 [EmptyModule EXCEPT
                     !.functions =
                         <<FunctionDefinition("a", FALSE,
                               Several(in.params, LAMBDA j : Typed(in.names[j], NumberType(i32))),
                               <<>>,
                               Several(k - in.params,
                                       LAMBDA j : Typed(in.names[in.params + j], LocalType(j))),
                               Body(1))>>]

-----------------------------------------------------------------------------
(* Specification: one buildWasmModule call on a module definition          *)

\* the state when the library has been loaded and `definition` constructed
Loaded(in, definition) ==
    /\ input = in
    /\ moduleDefinition = definition
    /\ subject = definition
    /\ otherDefinition = EmptyModule
    /\ pc = "idle"
    /\ outputBytes = <<>>
    /\ context = emptyContext
    /\ exportsDefinitions = <<>>
    /\ customIndex = 1
    /\ error = NoError
    /\ emitted = <<>>
    /\ codeEntries = <<>>
    /\ opcodeNameToBytes = initializeEncodedOpcodesTable
    /\ anonymousBlockCounter = CASE in.pool = "branch" -> IfsInside(in, 0)
                                 [] in.pool = "else" -> 2
                                 [] OTHER -> 0
    /\ returned = NoResult
    /\ firstReturned = NoResult
    /\ calls = <<>>
    /\ sink = IF in.pool = "sink" /\ in.type = "DynamicUint8Array"
              THEN createDynamicUint8Array(in.initialCapacity)
              ELSE createDynamicNumberArray
    /\ appended = <<>>

Init ==
    \/ \E in \in SectionInputs : Loaded(in, SectionModule(in))
    \/ \E in \in TypeInputs : Loaded(in, TypeModule(in))
    \/ \E in \in ReferenceInputs : Loaded(in, ReferenceModule(in))
    \/ \E in \in LocalInputs : Loaded(in, LocalModule(in))
    \/ \E in \in BranchInputs : Loaded(in, BranchModule(in))
    \/ \E in \in NameInputs : Loaded(in, NameModule(in))
    \/ \E in \in ExportInputs : Loaded(in, ExportModule(in))
    \/ \E in \in NestingInputs : Loaded(in, NestingModule(in))
    \/ \E in \in ElemDropInputs : Loaded(in, ElemDropModule(in))
    \/ \E in \in ScopeInputs : Loaded(in, ScopeModule(in))
    \/ \E in \in SiblingInputs : Loaded(in, SiblingModule(in))
    \/ \E in \in ExpressionInputs : Loaded(in, ExpressionModule(in))
    \/ \E in \in ElseInputs : Loaded(in, ElseModule(in))
    \/ \E in \in DuplicateInputs : Loaded(in, DuplicateModule(in))

Next ==
    \/ BuildWasmModule
    \/ EmitModuleStep

Spec == Init /\ [][Next]_vars

-----------------------------------------------------------------------------
(* Specification: a session of buildWasmModule calls on a subject and on   *)
(* other definitions constructed through Op in between                     *)

MaxCalls == 3
MaxCounter == 2

\* the subjects: small modules with blocks, with references that resolve and
\* that do not, with every section and with none
SessionBranchInputs ==
    {in \in BranchInputs : in.depth <= 2 /\ in.opcodeName = "br"}

SessionReferenceInputs == {in \in ReferenceInputs : in.count = 1}

SessionSectionInputs ==
    {in \in SectionInputs :
        \/ /\ in.functions = MaxFunctions /\ in.customSections = MaxCustomSections
           /\ in.customTypes /\ in.imports /\ in.tables /\ in.memories /\ in.globals
           /\ in.start /\ in.elements /\ in.data /\ in.export
        \/ /\ in.functions = 0 /\ in.customSections = 0
           /\ ~in.customTypes /\ ~in.imports /\ ~in.tables /\ ~in.memories /\ ~in.globals
           /\ ~in.start /\ ~in.elements /\ ~in.data /\ ~in.export}

\* what a caller may construct when anonymousBlockCounter = counter: a branch
\* inside an if (pattern 1) or inside a named block (pattern 2)
OtherInputs(counter) ==
    [pool : {"branch"}, counter : {counter}, depth : {1}, pattern : {1, 2},
     opcodeName : {"br"}, targets : {<<1>>}, defaultTarget : {1}]

\* the caller constructs another module definition; each Op.if in it takes the
\* next value of anonymousBlockCounter
ConstructOther ==
    /\ pc \in {"idle", "done", "failed"}
    /\ anonymousBlockCounter < MaxCounter
    /\ \E in \in OtherInputs(anonymousBlockCounter) :
           /\ otherDefinition' = BranchModule(in)
           /\ anonymousBlockCounter' = anonymousBlockCounter + IfsInside(in, 0)
    /\ UNCHANGED <<moduleDefinition, pc, outputBytes, context, exportsDefinitions,
                   customIndex, error, emitted, codeEntries, opcodeNameToBytes, returned,
                   subject, firstReturned, calls, input, sink, appended>>

\* the caller goes on to call buildWasmModule on the subject or on the other
\* definition
NextCall ==
    /\ pc \in {"done", "failed"}
    /\ Len(calls) < MaxCalls
    /\ moduleDefinition' \in {subject, otherDefinition}
    /\ pc' = "idle"
    /\ UNCHANGED <<outputBytes, context, exportsDefinitions, customIndex, error, emitted,
                   codeEntries, opcodeNameToBytes, anonymousBlockCounter, returned,
                   subject, otherDefinition, firstReturned, calls, input, sink, appended>>

InitSession ==
    \/ \E in \in SessionBranchInputs : Loaded(in, BranchModule(in))
    \/ \E in \in SessionReferenceInputs : Loaded(in, ReferenceModule(in))
    \/ \E in \in SessionSectionInputs : Loaded(in, SectionModule(in))

NextSession ==
    \/ BuildWasmModule
    \/ EmitModuleStep
    \/ ConstructOther
    \/ NextCall

SpecSession == InitSession /\ [][NextSession]_vars

-----------------------------------------------------------------------------
(* Specification: the integer encoders and the constant instructions on    *)
(* numbers and bigints around the powers of two                            *)

MaxExponent == 70

NumberShapes == {"2^k", "2^k-1", "-2^k", "-2^k-1"}

\* 2^53 - 1 is Number.MAX_SAFE_INTEGER: no number is 2^k - 1 or -2^k - 1 for a
\* larger k
NumberInputs ==
    {in \in [pool : {"numbers"}, type : {"number", "bigint"}, shape : NumberShapes,
             exponent : 0..MaxExponent] :
        (in.type = "number" /\ in.shape \in {"2^k-1", "-2^k-1"})
            => in.exponent <= 53}

\* the integer an input stands for
ValueOf(in) ==
    LET whole == in.exponent \div 7
        bit == 2 ^ (in.exponent % 7)
        top == CASE in.shape = "2^k" -> bit
                 [] in.shape = "2^k-1" -> bit - 1
                 [] in.shape = "-2^k" -> 128 - bit
                 [] in.shape = "-2^k-1" -> 127 - bit
        below == IF in.shape \in {"2^k", "-2^k"} THEN 0 ELSE 127
    IN  [type |-> in.type,
         digits |-> [i \in 1..(whole + 1) |-> IF i <= whole THEN below ELSE top],
         sign |-> IF in.shape \in {"2^k", "2^k-1"} THEN 0 ELSE -1]

\* the caller is given what `result` wrote, or its error
Applied(step, result) ==
    /\ pc = "idle"
    /\ input.pool = "numbers"
    /\ pc' = step
    /\ error' = result.err
    /\ returned' = [threw |-> Failed(result), given |-> TRUE, bytes |-> result.bytes]
    /\ UNCHANGED <<moduleDefinition, outputBytes, context, exportsDefinitions, customIndex,
                   emitted, codeEntries, opcodeNameToBytes, anonymousBlockCounter,
                   subject, otherDefinition, firstReturned, calls, input, sink, appended>>

\* encodeUint(value)
EncodeUint == Applied("encodeUint", encodeUnsignedLeb128OfValue(ValueOf(input)))

\* encodeInt(value)
EncodeInt == Applied("encodeInt", encodeSignedLeb128OfValue(ValueOf(input)))

\* Op.i32.const(value).immediatesEmitter(builder) on a new builder
I32Const == Applied("i32.const", i32_constImmediates(ValueOf(input)))

\* Op.i64.const(value).immediatesEmitter(builder) on a new builder
I64Const == Applied("i64.const", i64_constImmediates(ValueOf(input)))

\* every opcode of one byte, and opcodes at the ends of the ranges of two and
\* of three bytes, among them memory.copy (0xFC0A) and f64x2.nearest (0xFD094)
OpcodeInputs ==
    [pool : {"opcodes"},
     opcode : 0..255 \cup {256, 32767, 32768, 64522, 65535, 65536, 1036436, 1044479,
                           1044480, 1048575, 1048576, 1048577, 2097152}]

\* builder.emitOpcode(opcode) on a new builder
EmitOpcode ==
    /\ pc = "idle"
    /\ input.pool = "opcodes"
    /\ pc' = "emitOpcode"
    /\ error' = emitOpcode(input.opcode).err
    /\ returned' = [threw |-> Failed(emitOpcode(input.opcode)), given |-> TRUE,
                    bytes |-> emitOpcode(input.opcode).bytes]
    /\ UNCHANGED <<moduleDefinition, outputBytes, context, exportsDefinitions, customIndex,
                   emitted, codeEntries, opcodeNameToBytes, anonymousBlockCounter,
                   subject, otherDefinition, firstReturned, calls, input, sink, appended>>

InitNumbers ==
    \/ \E in \in NumberInputs : Loaded(in, EmptyModule)
    \/ \E in \in OpcodeInputs : Loaded(in, EmptyModule)

NextNumbers ==
    \/ EncodeUint
    \/ EncodeInt
    \/ I32Const
    \/ I64Const
    \/ EmitOpcode

SpecNumbers == InitNumbers /\ [][NextNumbers]_vars

-----------------------------------------------------------------------------
(* Specification: a dynamic array that is appended to and cleared          *)

MaxCapacity == 4
MaxLength == 5
MaxAdded == 3

\* the values appended: bytes
SinkValues == {7, 255}

\* a DynamicUint8Array of an initial capacity (4 when none is given), or a
\* DynamicNumberArray
SinkInputs ==
    [pool : {"sink"}, type : {"DynamicUint8Array"}, initialCapacity : 0..MaxCapacity]
        \cup [pool : {"sink"}, type : {"DynamicNumberArray"}, initialCapacity : {0}]

SinkUnchanged ==
    UNCHANGED <<moduleDefinition, pc, outputBytes, context, exportsDefinitions, customIndex,
                error, emitted, codeEntries, opcodeNameToBytes, anonymousBlockCounter,
                returned, subject, otherDefinition, firstReturned, calls, input>>

\* sink.appendValue(newValue), or sink.addValue(newValue)
AppendValue ==
    /\ input.pool = "sink"
    /\ sink.length < MaxLength
    /\ \E newValue \in SinkValues :
           /\ sink' = IF sink.type = "DynamicUint8Array"
                      THEN DynamicUint8Array_appendValue(sink, newValue)
                      ELSE DynamicNumberArray_addValue(sink, newValue)
           /\ appended' = Append(appended, newValue)
    /\ SinkUnchanged

\* sink.appendValues(newValues), or sink.addValues(newValues)
AppendValues ==
    /\ input.pool = "sink"
    /\ \E newValues \in SeqsUpTo(SinkValues, MaxAdded) :
           /\ sink.length + Len(newValues) <= MaxLength
           /\ sink' = IF sink.type = "DynamicUint8Array"
                      THEN DynamicUint8Array_appendValues(sink, newValues)
                      ELSE DynamicNumberArray_addValues(sink, newValues)
           /\ appended' = appended \o newValues
    /\ SinkUnchanged

\* sink.clear()
Clear ==
    /\ input.pool = "sink"
    /\ sink' = IF sink.type = "DynamicUint8Array"
               THEN DynamicUint8Array_clear(sink)
               ELSE DynamicNumberArray_clear(sink)
    /\ appended' = <<>>
    /\ SinkUnchanged

InitSink == \E in \in SinkInputs : Loaded(in, EmptyModule)

NextSink ==
    \/ AppendValue
    \/ AppendValues
    \/ Clear

SpecSink == InitSink /\ [][NextSink]_vars

-----------------------------------------------------------------------------
(* Specification: the caller encodes with its own builder, or calls        *)
(* buildWasmModule, on definitions that resolve and that do not            *)

\* const builder = createWasmBuilder(); builder.emitModule(moduleDefinition):
\* the builder stays with the caller whether emitModule returns or throws
EmitModule ==
    /\ pc = "idle"
    /\ pc' = "emitModule"
    /\ outputBytes' = createWasmBuilder
    /\ context' = emptyContext
    /\ exportsDefinitions' = <<>>
    /\ customIndex' = 1
    /\ error' = NoError
    /\ emitted' = <<>>
    /\ codeEntries' = <<>>
    /\ calls' = Append(calls, "builder")
    /\ UNCHANGED <<moduleDefinition, opcodeNameToBytes, anonymousBlockCounter,
                   returned, subject, otherDefinition, firstReturned, input, sink, appended>>

\* the caller's builder has been used: the last call of its emitModule has
\* returned or thrown
BuilderUsed ==
    /\ pc \in {"done", "failed"}
    /\ calls # <<>>
    /\ calls[1] = "builder"
    /\ Len(calls) < MaxCalls

\* a faulty emitModule: the output is cleared before the module is written
EmitModuleAgain_Cleared ==
    /\ BuilderUsed
    /\ pc' = "emitModule"
    /\ outputBytes' = <<>>
    /\ context' = emptyContext
    /\ exportsDefinitions' = <<>>
    /\ customIndex' = 1
    /\ error' = NoError
    /\ emitted' = <<>>
    /\ codeEntries' = <<>>
    /\ calls' = Append(calls, "again")
    /\ UNCHANGED <<moduleDefinition, opcodeNameToBytes, anonymousBlockCounter,
                   returned, subject, otherDefinition, firstReturned, input, sink, appended>>

\* builder.emitModule(moduleDefinition) once more on the caller's builder:
\* emitModule starts to write where the output ends
EmitModuleAgain ==
    /\ BuilderUsed
    /\ pc' = "emitModule"
    /\ outputBytes' = outputBytes
    /\ context' = emptyContext
    /\ exportsDefinitions' = <<>>
    /\ customIndex' = 1
    /\ error' = NoError
    /\ emitted' = <<>>
    /\ codeEntries' = <<>>
    /\ calls' = Append(calls, "again")
    /\ UNCHANGED <<moduleDefinition, opcodeNameToBytes, anonymousBlockCounter,
                   returned, subject, otherDefinition, firstReturned, input, sink, appended>>

\* builder.reset(): this.outputBytes.clear()
Reset ==
    /\ BuilderUsed
    /\ outputBytes' = <<>>
    /\ calls' = Append(calls, "reset")
    /\ UNCHANGED <<moduleDefinition, pc, context, exportsDefinitions, customIndex, error,
                   emitted, codeEntries, opcodeNameToBytes, anonymousBlockCounter,
                   returned, subject, otherDefinition, firstReturned, input, sink, appended>>

InitBuilder ==
    \/ \E in \in NameInputs : Loaded(in, NameModule(in))
    \/ \E in \in SessionReferenceInputs : Loaded(in, ReferenceModule(in))
    \/ \E in \in SessionSectionInputs : Loaded(in, SectionModule(in))

NextBuilder ==
    \/ EmitModule
    \/ EmitModuleAgain
    \/ Reset
    \/ BuildWasmModule
    \/ EmitModuleStep

SpecBuilder == InitBuilder /\ [][NextBuilder]_vars

-----------------------------------------------------------------------------
(* Reading an encoded module back: the sections of a byte sequence         *)

RECURSIVE ulebAt(_, _)
\* the unsigned LEB128 number that starts at bytes[pos], and where it ends;
\* value -1 when the bytes end before the number does
ulebAt(bytes, pos) ==
    IF pos > Len(bytes) THEN [value |-> -1, next |-> pos]
    ELSE IF bytes[pos] < 128 THEN [value |-> bytes[pos], next |-> pos + 1]
    ELSE LET rest == ulebAt(bytes, pos + 1)
         IN  IF rest.value < 0 THEN rest
             ELSE [value |-> (bytes[pos] - 128) + 128 * rest.value, next |-> rest.next]

RECURSIVE ParseSections(_, _)
\* the (id, length, body) sections from bytes[pos] on; ok iff they end exactly
\* where the bytes end
ParseSections(bytes, pos) ==
    IF pos = Len(bytes) + 1 THEN [ok |-> TRUE, sections |-> <<>>]
    ELSE IF pos > Len(bytes) THEN [ok |-> FALSE, sections |-> <<>>]
    ELSE LET length == ulebAt(bytes, pos + 1)
             end == length.next + length.value
         IN  IF length.value < 0 \/ end > Len(bytes) + 1
             THEN [ok |-> FALSE, sections |-> <<>>]
             ELSE LET rest == ParseSections(bytes, end)
                  IN  [ok |-> rest.ok,
                       sections |-> <<[id |-> bytes[pos],
                                       body |-> SubSeq(bytes, length.next, end - 1)]>>
                                        \o rest.sections]

RECURSIVE ParseItems(_, _, _)
\* `count` length-prefixed items from bytes[pos] on; ok iff they end exactly
\* where the bytes end
ParseItems(bytes, pos, count) ==
    IF count = 0 THEN [ok |-> pos = Len(bytes) + 1, items |-> <<>>]
    ELSE LET length == ulebAt(bytes, pos)
             end == length.next + length.value
         IN  IF length.value < 0 \/ end > Len(bytes) + 1
             THEN [ok |-> FALSE, items |-> <<>>]
             ELSE LET rest == ParseItems(bytes, end, count - 1)
                  IN  [ok |-> rest.ok,
                       items |-> <<SubSeq(bytes, length.next, end - 1)>> \o rest.items]

\* the sections that follow the 8 bytes of the preamble
Parsed == ParseSections(outputBytes, Len(preamble) + 1)

SectionIds == [i \in 1..Len(Parsed.sections) |-> Parsed.sections[i].id]

\* the bodies of the sections with this id
BodiesOf(id) ==
    LET at == {i \in 1..Len(Parsed.sections) : Parsed.sections[i].id = id}
    IN  {Parsed.sections[i].body : i \in at}

Occurrences(id) == Cardinality({i \in 1..Len(SectionIds) : SectionIds[i] = id})

\* the preamble is written and emitModule is between two calls, or has returned
BetweenSections ==
    /\ error = NoError
    /\ \/ pc = "done"
       \/ \E i \in 2..Len(emitModuleOrder) : pc = emitModuleOrder[i]

Done == pc = "done"

DistinctNames(entries) ==
    \A i, j \in 1..Len(entries) : entries[i].name = entries[j].name => i = j

\* the 0-based place of the entry called name, in a list of distinct names
PlaceOf(entries, name) == (CHOOSE i \in 1..Len(entries) : entries[i].name = name) - 1

Declared(entries, name) == \E i \in 1..Len(entries) : entries[i].name = name

\* the log entries of the instructions with one of these opcode names
EmittedWith(opcodeNames) ==
    {emitted[i] : i \in {k \in 1..Len(emitted) :
                             /\ emitted[k].opcodeName \in opcodeNames
                             /\ ~emitted[k].threw}}

\* the log entries of the instructions whose immediates emitter threw
Threw == {emitted[i] : i \in {k \in 1..Len(emitted) : emitted[k].threw}}

-----------------------------------------------------------------------------
(* Section order, presence and framing                                     *)

RequiredOrder == <<1, 2, 3, 4, 5, 6, 7, 8, 9, 12, 10, 11>>

PlaceInOrder(id) == CHOOSE i \in 1..Len(RequiredOrder) : RequiredOrder[i] = id

\* the number of custom sections written so far
CustomWritten ==
    IF pc = "done" THEN Len(moduleDefinition.customSections)
    ELSE IF pc = "custom" THEN customIndex - 1
    ELSE 0

\* C2: the section ids written are a subsequence of 1,2,3,4,5,6,7,8,9,12,10,11
\* followed only by custom sections (id 0), one per custom section of the
\* definition, in the given order; this holds of the output after every call
\* of emitModule, the custom sections counted being those written so far.
C2_SectionOrder ==
    BetweenSections =>
        /\ Parsed.ok
        /\ LET ids == SectionIds
               k == Len(ids) - CustomWritten
           IN  /\ k >= 0
               /\ \A i \in 1..k : \E r \in 1..Len(RequiredOrder) : ids[i] = RequiredOrder[r]
               /\ \A i, j \in 1..k : i < j => PlaceInOrder(ids[i]) < PlaceInOrder(ids[j])
               /\ \A i \in (k + 1)..Len(ids) :
                      /\ ids[i] = 0
                      /\ LET given == moduleDefinition.customSections[i - k]
                         IN  Parsed.sections[i].body =
                                 <<Len(encodeUTF8(given.name))>> \o encodeUTF8(given.name)
                                     \o given.content

C2_Witness ==
    /\ Done
    /\ SectionIds = <<1, 2, 3, 4, 5, 6, 7, 8, 9, 12, 10, 11, 0, 0>>

SomeExported(entries) == \E i \in 1..Len(entries) : entries[i].export

\* whether the definition has an entry for the section with this id
HasEntries(definition, id) ==
    CASE id = 1 -> Len(definition.functions) > 0 \/ Len(definition.customTypes) > 0
      [] id = 2 -> Len(definition.imports) > 0
      [] id = 3 -> Len(definition.functions) > 0
      [] id = 4 -> Len(definition.tables) > 0
      [] id = 5 -> Len(definition.memories) > 0
      [] id = 6 -> Len(definition.globals) > 0
      [] id = 7 -> \/ SomeExported(definition.functions)
                   \/ SomeExported(definition.tables)
                   \/ SomeExported(definition.memories)
                   \/ SomeExported(definition.globals)
      [] id = 8 -> definition.start.present
      [] id = 9 -> Len(definition.elements) > 0
      [] id = 10 -> Len(definition.functions) > 0
      [] id = 11 -> Len(definition.data) > 0
      [] id = 12 -> Len(definition.data) > 0

\* C3: in the output of a completed emitModule every non-custom section
\* occurs once if the definition has an entry for it and not at all otherwise.
C3_SectionPresence ==
    Done =>
        \A r \in 1..Len(RequiredOrder) :
            Occurrences(RequiredOrder[r]) =
                IF HasEntries(moduleDefinition, RequiredOrder[r]) THEN 1 ELSE 0

\* a custom type and a data segment but no function: Types without Functions or
\* Code, and nothing to export although the export flag is set
C3_Witness ==
    /\ Done
    /\ input.pool = "sections"
    /\ input.export
    /\ SectionIds = <<1, 12, 11>>

\* C4: buildWasmModule of the empty definition returns the 8 bytes
\* 00 61 73 6D 01 00 00 00 and does not throw.
C4_EmptyModule ==
    moduleDefinition = EmptyModule =>
        /\ pc \notin {"threw", "failed"}
        /\ Done => returned = [threw |-> FALSE, given |-> TRUE,
                               bytes |-> <<0, 97, 115, 109, 1, 0, 0, 0>>]

C4_Witness ==
    /\ Done
    /\ moduleDefinition = EmptyModule
    /\ returned.given

\* the number of sections a completed emitModule writes for a definition
SectionsExpected(definition) ==
    Cardinality({r \in 1..Len(RequiredOrder) : HasEntries(definition, RequiredOrder[r])})
        + Len(definition.customSections)

\* C5: after every call of emitModule the output from offset 8 on is a
\* sequence of (id, unsigned LEB128 length, body of exactly that length) that
\* ends exactly at the end of the output; a completed emitModule has written
\* one such frame per section, and the code section is itself a count followed
\* by that many length-prefixed function bodies, the entryBuilder bytes.
C5_SectionFraming ==
    BetweenSections =>
        /\ Parsed.ok
        /\ Done => Len(Parsed.sections) = SectionsExpected(moduleDefinition)
        /\ \A body \in BodiesOf(SectionCode) :
               LET count == ulebAt(body, 1)
                   bodies == ParseItems(body, count.next, count.value)
               IN  /\ count.value = Len(moduleDefinition.functions)
                   /\ bodies.ok
                   /\ bodies.items = codeEntries

C5_Witness ==
    /\ Done
    /\ Len(Parsed.sections) = 14
    /\ Len(codeEntries) = 2

-----------------------------------------------------------------------------
(* Names resolved to indices                                               *)

\* every name of `entries` is looked up as its 0-based place in the list
LooksUpPlaces(lookup, entries) ==
    \A i \in 1..Len(entries) : MapGet(lookup, entries[i].name) = i - 1

\* every instruction emitted under one of these opcode names wrote, as its
\* only immediate, the place of the entity it names
EmitPlace(opcodeNames, entries) ==
    \A e \in EmittedWith(opcodeNames) :
        Declared(entries, e.names[1]) =>
            e.immediates = <<PlaceOf(entries, e.names[1])>>

\* C6: where the names of a kind (functions, tables, memories, globals,
\* elements) are distinct, the lookup of that kind maps each name to its
\* 0-based place in declaration order, and call, table.get, memory.size,
\* global.get and table.init write that place as the immediate (table.init
\* the place of the table it names and the place of the element it names).
C6_NamesToIndices ==
    (pc \notin {"idle", "emitModule"}) =>
        /\ DistinctNames(moduleDefinition.functions) =>
               /\ LooksUpPlaces(context.functionsLookup, moduleDefinition.functions)
               /\ EmitPlace({"call", "ref.func"}, moduleDefinition.functions)
        /\ DistinctNames(moduleDefinition.tables) =>
               /\ LooksUpPlaces(context.tablesLookup, moduleDefinition.tables)
               /\ EmitPlace({"table.get"}, moduleDefinition.tables)
        /\ DistinctNames(moduleDefinition.memories) =>
               /\ LooksUpPlaces(context.memoriesLookup, moduleDefinition.memories)
               /\ EmitPlace({"memory.size"}, moduleDefinition.memories)
        /\ DistinctNames(moduleDefinition.globals) =>
               /\ LooksUpPlaces(context.globalsLookup, moduleDefinition.globals)
               /\ EmitPlace({"global.get"}, moduleDefinition.globals)
        /\ DistinctNames(moduleDefinition.elements) =>
               LooksUpPlaces(context.elementsLookup, moduleDefinition.elements)
        /\ DistinctNames(moduleDefinition.elements) /\ DistinctNames(moduleDefinition.tables) =>
               \A e \in EmittedWith({"table.init"}) :
                   (Declared(moduleDefinition.tables, e.names[1])
                        /\ Declared(moduleDefinition.elements, e.names[2])) =>
                       e.immediates = <<PlaceOf(moduleDefinition.tables, e.names[1]),
                                        PlaceOf(moduleDefinition.elements, e.names[2])>>

C6_Witness ==
    /\ Done
    /\ input.pool = "reference"
    /\ input.kind = "table.init"
    /\ input.first = 3
    /\ input.second = 2
    /\ \E e \in EmittedWith({"table.init"}) :
           e.names = <<"c", "b">> /\ e.immediates = <<2, 1>>

\* C7: data.drop of the i-th declared data segment (0-based) writes i, and
\* memory.init writes the data segment's place and then the memory's: as
\* stated, for the modules whose one instruction names declared entities.
C7_DataNamesToIndices ==
    (input.pool = "reference" /\ input.kind \in {"data.drop", "memory.init"}) =>
        /\ pc \notin {"threw", "failed"}
        /\ Done =>
               \E e \in EmittedWith({"data.drop", "memory.init"}) :
                   e.immediates =
                       IF input.kind = "data.drop"
                       THEN <<PlaceOf(moduleDefinition.data, Names[input.first])>>
                       ELSE <<PlaceOf(moduleDefinition.data, Names[input.second]),
                              PlaceOf(moduleDefinition.memories, Names[input.first])>>

\* what the code does instead: the data lookup is never filled, the
\* instruction throws and buildWasmModule fails
C7_Unresolved ==
    (input.pool = "reference" /\ input.kind \in {"data.drop", "memory.init"}) =>
        /\ context.dataLookup = EmptyMap
        /\ ~Done
        /\ pc \in {"threw", "failed"} => error.kind = "UnresolvedName"

C7_Unresolved_Witness ==
    /\ input.pool = "reference"
    /\ input.kind = "data.drop"
    /\ pc = "failed"
    /\ error = [kind |-> "UnresolvedName", name |-> "a"]
    /\ Declared(moduleDefinition.data, "a")

-----------------------------------------------------------------------------
(* Types of functions and custom types                                     *)

RECURSIVE Repeated(_, _)
\* `bytes` written n times over
Repeated(bytes, n) == IF n = 0 THEN <<>> ELSE bytes \o Repeated(bytes, n - 1)

RECURSIVE ExpectedSignatures(_, _)
\* the signatures of the functions i..F of a module of the types pool: the
\* i-th takes i i32 parameters and returns an i64
ExpectedSignatures(i, F) ==
    IF i > F THEN <<>>
    ELSE <<96, i>> \o Repeated(<<127>>, i) \o <<1, 126>> \o ExpectedSignatures(i + 1, F)

\* a struct type with one mutable i32 field, as the custom types of the pool
ExpectedCustomType == <<95, 1, 127, 1>>

\* the types section lists the F signatures and then the C custom types, and
\* the functions section the indices 0..F-1
TypesThenCustomTypes ==
    LET F == Len(input.functionNames)
        C == Len(input.customTypeNames)
    IN  /\ F + C > 0 =>
               BodiesOf(SectionTypes) =
                   {<<F + C>> \o ExpectedSignatures(1, F) \o Repeated(ExpectedCustomType, C)}
        /\ F > 0 => BodiesOf(SectionFunctions) = {<<F>> \o [i \in 1..F |-> i - 1]}

\* C8 as stated: for F functions and C custom types, the types section lists
\* the F signatures then the C custom types, the functions section writes the
\* indices 0..F-1, and the types lookup maps the i-th function's name to i and
\* the j-th custom type's name to F+j.
C8_TypeIndices ==
    (Done /\ input.pool = "types") =>
        LET F == Len(input.functionNames)
            C == Len(input.customTypeNames)
        IN  /\ TypesThenCustomTypes
            /\ \A i \in 1..F : MapGet(context.typesLookup, input.functionNames[i]) = i - 1
            /\ \A j \in 1..C : MapGet(context.typesLookup, input.customTypeNames[j]) = F + j - 1

\* C8 amended: the layout of the two sections as stated; the types lookup
\* maps each name to the place, in the list of the F functions followed by
\* the C custom types, of the last entry that carries the name: the i-th
\* function's name to i and the j-th custom type's name to F+j unless a
\* later function or custom type has the same name.
C8_TypeIndices_LastWins ==
    (Done /\ input.pool = "types") =>
        LET all == input.functionNames \o input.customTypeNames
            Last(name) == CHOOSE i \in 1..Len(all) :
                              /\ all[i] = name
                              /\ \A k \in (i + 1)..Len(all) : all[k] # name
        IN  /\ TypesThenCustomTypes
            /\ \A i \in 1..Len(all) : MapGet(context.typesLookup, all[i]) = Last(all[i]) - 1

\* two functions a, b and two custom types a, c: a is looked up as 2, not 0
C8_Witness ==
    /\ Done
    /\ input.pool = "types"
    /\ input.functionNames = <<"a", "b">>
    /\ input.customTypeNames = <<"a", "c">>
    /\ context.typesLookup = ("a" :> 2) @@ ("b" :> 1) @@ ("c" :> 3)
    /\ BodiesOf(SectionFunctions) = {<<2, 0, 1>>}

-----------------------------------------------------------------------------
(* Parameters and locals                                                   *)

RECURSIVE ExpectedLocalGroups(_, _)
\* the groups (count 1, value type) of the declared locals k..L
ExpectedLocalGroups(k, L) ==
    IF k > L THEN <<>>
    ELSE <<1, IF k % 2 = 1 THEN 126 ELSE 127>> \o ExpectedLocalGroups(k + 1, L)

ExpectedLocalOpcode(opcodeName) ==
    CASE opcodeName = "local.get" -> 32
      [] opcodeName = "local.set" -> 33
      [] opcodeName = "local.tee" -> 34

\* C9: in a function with P parameters and L declared locals of distinct
\* names, local.get/set/tee of the j-th parameter writes j and of the k-th
\* declared local writes P+k (0-based); the body starts with the count L and
\* L groups (1, value type) in declaration order, the parameters adding none.
C9_LocalIndices ==
    (Done /\ input.pool = "locals") =>
        LET P == input.params
            L == input.locals
            index == IF input.target <= P THEN input.target - 1
                     ELSE P + (input.target - P - 1)
            body == <<L>> \o ExpectedLocalGroups(1, L)
                        \o <<ExpectedLocalOpcode(input.opcodeName), index, 11>>
        IN  /\ BodiesOf(SectionCode) = {<<1, Len(body)>> \o body}
            /\ \A e \in EmittedWith(LocalOpcodes) : e.immediates = <<index>>

C9_Witness ==
    /\ Done
    /\ input = [pool |-> "locals", params |-> 2, locals |-> 2,
                opcodeName |-> "local.set", target |-> 4]
    /\ BodiesOf(SectionCode) = {<<1, 8, 2, 1, 126, 1, 127, 33, 3, 11>>}

-----------------------------------------------------------------------------
(* Branch depths                                                           *)

\* the depth of the block at `level` seen from a branch inside `depth` blocks
ExpectedDepth(level) == input.depth - level

\* C10: a branch inside n nested blocks of distinct names writes, for the
\* block at level t (1 = outermost), the depth n - t: 0 for the innermost
\* block and n-1 for the outermost; br_table writes the number of targets,
\* the depth of each target in the given order and the depth of the default.
C10_BranchDepths ==
    (input.pool = "branch" /\ pc \in {"data", "custom", "done"}) =>
        \E e \in EmittedWith({input.opcodeName}) :
            /\ EmittedWith({input.opcodeName}) = {e}
            /\ Len(e.blockStack) = input.depth
            /\ e.immediates =
                   IF input.opcodeName = "br_table"
                   THEN <<Len(input.targets)>>
                            \o [i \in 1..Len(input.targets) |-> ExpectedDepth(input.targets[i])]
                            \o <<ExpectedDepth(input.defaultTarget)>>
                   ELSE <<ExpectedDepth(input.targets[1])>>

\* br_table(["a", "c"], "b") inside the blocks a, b, c: 2, [2, 0], 1
C10_Witness ==
    /\ Done
    /\ input.pool = "branch"
    /\ input.depth = 3
    /\ input.opcodeName = "br_table"
    /\ input.targets = <<1, 3>>
    /\ input.defaultTarget = 2
    /\ \E e \in EmittedWith({"br_table"}) : e.immediates = <<2, 2, 0, 1>>

-----------------------------------------------------------------------------
(* Determinism                                                             *)

\* C1: every buildWasmModule call on the subject gives what the first call
\* on it gave, the same bytes or the same failure, whatever definitions were
\* constructed (advancing anonymousBlockCounter) or encoded in between.
C1_Deterministic ==
    (pc \in {"done", "failed"} /\ moduleDefinition = subject) => returned = firstReturned

\* the subject with an if block encoded, another definition constructed and
\* encoded, and the subject encoded again
C1_Witness ==
    /\ Done
    /\ calls = <<"subject", "other", "subject">>
    /\ input.pool = "branch"
    /\ IfsInside(input, 0) > 0
    /\ anonymousBlockCounter > IfsInside(input, 0)
    /\ otherDefinition # subject
    /\ returned = firstReturned
    /\ Len(returned.bytes) > Len(preamble)

-----------------------------------------------------------------------------
(* Names that do not resolve                                               *)

\* the names the instruction of a names input refers to, in the order in
\* which its immediates emitter looks them up
NamesReferred ==
    IF input.kind \in TwoNameKinds THEN <<input.first, input.second>> ELSE <<input.first>>

SomeUndeclared == \E i \in 1..Len(NamesReferred) : NamesReferred[i] = "d"

\* the encode has gone past the code section
PastCode == pc \in {"data", "custom", "done"}

\* the encode failed with UnresolvedName for d, the instruction having
\* written no immediate byte
FailedUnresolved ==
    /\ ~PastCode
    /\ pc = "idle" => error = NoError
    /\ pc \in {"threw", "failed"} =>
           /\ calls # <<>>
           /\ error = [kind |-> "UnresolvedName", name |-> "d"]
           /\ \A e \in Threw : e.immediates = <<>>

\* C11 as stated: an instruction that refers to a function, type, table,
\* memory, global or local name that is in no lookup makes the encode fail
\* with UnresolvedName carrying that name; the definition is constructed
\* without an error, and the instruction writes no immediate byte.
C11_UnresolvedNames ==
    (input.pool = "names" /\ input.kind \in OneNameKinds \cup {"call_indirect", "memory.copy"}
        /\ SomeUndeclared)
        => FailedUnresolved

\* what the code does: the same for every instruction but memory.copy, whose
\* second name is never looked up
C11_ButMemoryCopy ==
    (input.pool = "names" /\ input.kind \in OneNameKinds \cup {"call_indirect"}
        /\ SomeUndeclared)
        => FailedUnresolved

C11_ButMemoryCopy_Witness ==
    /\ input.pool = "names"
    /\ input.kind = "call_indirect"
    /\ input.first = "b"
    /\ input.second = "d"
    /\ pc = "failed"
    /\ error.name = "d"
    /\ \E e \in Threw : e.opcodeName = "call_indirect" /\ e.immediates = <<>>

\* memory.copy("a", "d") is encoded without an error, with the index of a twice
C11_MemoryCopyEncoded ==
    /\ Done
    /\ input.pool = "names"
    /\ input.kind = "memory.copy"
    /\ input.first = "a"
    /\ input.second = "d"
    /\ \E e \in EmittedWith({"memory.copy"}) : e.immediates = <<0, 0>>

\* C12 as stated: a br, br_if, br_on_null, br_on_non_null, br_on_cast or
\* br_on_cast_fail to a block that is not on the block stack makes the encode
\* fail with UnresolvedName naming the block, before the instruction has
\* written an immediate byte.
C12_UnknownBlock ==
    (input.pool = "names" /\ input.kind \in BranchKinds /\ input.first = "d")
        => FailedUnresolved

\* what the code does: indexOf gives -1, which is not undefined, and the
\* encode fails when emitUint is given -1, for br_on_cast and br_on_cast_fail
\* after the flags byte has been written
C12_NegativeIndex ==
    (input.pool = "names" /\ input.kind \in BranchKinds /\ input.first = "d") =>
        /\ ~PastCode
        /\ pc \in {"threw", "failed"} =>
               /\ error = [kind |-> "InvalidValue", name |-> "negative"]
               /\ \A e \in Threw :
                      e.immediates = IF input.kind \in {"br_on_cast", "br_on_cast_fail"}
                                     THEN <<1>> ELSE <<>>

C12_NegativeIndex_Witness ==
    /\ input.pool = "names"
    /\ input.kind = "br_on_cast"
    /\ input.first = "d"
    /\ pc = "failed"
    /\ error.kind = "InvalidValue"
    /\ \E e \in Threw : e.opcodeName = "br_on_cast" /\ e.blockStack = <<"b", "a">>

-----------------------------------------------------------------------------
(* What is left of a failed encode                                         *)

\* the caller holds the builder on which emitModule ran
OwnBuilder == calls # <<>> /\ calls[Len(calls)] = "builder"

NoBytesReturned == returned = [threw |-> TRUE, given |-> TRUE, bytes |-> <<>>]

\* C13 as stated: when a step of emitModule throws, the encode stops there and
\* what was built is discarded: buildWasmModule returns no bytes, and a
\* builder of the caller holds no byte of the failed module, in particular
\* not the id byte of the section whose body failed.
C13_NothingKept ==
    pc = "failed" =>
        /\ NoBytesReturned
        /\ OwnBuilder => outputBytes = <<>>

\* C13 amended: when a step of emitModule throws, the encode stops there and
\* buildWasmModule returns no bytes; a builder of the caller keeps what was
\* written before the throw: the preamble, the sections completed, and the
\* id byte of the section whose body failed, but no byte of that body.
C13_WrittenKept ==
    /\ pc = "failed" => NoBytesReturned
    /\ (pc \in {"threw", "failed"} /\ OwnBuilder) =>
           LET n == Len(outputBytes)
               before == ParseSections(SubSeq(outputBytes, 1, n - 1), Len(preamble) + 1)
           IN  /\ n > Len(preamble)
               /\ SubSeq(outputBytes, 1, Len(preamble)) = preamble
               /\ outputBytes[n] = SectionCode
               /\ before.ok
               /\ \A i \in 1..Len(before.sections) :
                      PlaceInOrder(before.sections[i].id) < PlaceInOrder(SectionCode)

\* data.drop of a declared segment fails in the code section: the builder
\* holds the preamble, the seven sections before the code section and the id
\* byte of the code section
C13_Witness ==
    /\ pc = "failed"
    /\ OwnBuilder
    /\ input.pool = "reference"
    /\ input.kind = "data.drop"
    /\ NoBytesReturned
    /\ Len(ParseSections(SubSeq(outputBytes, 1, Len(outputBytes) - 1),
                         Len(preamble) + 1).sections) = 7
    /\ SubSeq(outputBytes, Len(outputBytes) - 3, Len(outputBytes)) = <<12, 1, 1, 10>>

-----------------------------------------------------------------------------
(* The exports section                                                     *)

RECURSIVE ParseExports(_, _, _)
\* `count` export entries (name, kind byte, index) from bytes[pos] on; ok iff
\* they end exactly where the bytes end
ParseExports(bytes, pos, count) ==
    IF count = 0 THEN [ok |-> pos = Len(bytes) + 1, entries |-> <<>>]
    ELSE LET length == ulebAt(bytes, pos)
             kindAt == length.next + length.value
             index == ulebAt(bytes, kindAt + 1)
         IN  IF length.value < 0 \/ kindAt > Len(bytes) \/ index.value < 0
             THEN [ok |-> FALSE, entries |-> <<>>]
             ELSE LET rest == ParseExports(bytes, index.next, count - 1)
                  IN  [ok |-> rest.ok,
                       entries |-> <<[name |-> SubSeq(bytes, length.next, kindAt - 1),
                                      kind |-> bytes[kindAt],
                                      index |-> index.value]>> \o rest.entries]

\* the entries of the exports section of the encoded module, none without one
ExportsRead ==
    IF Occurrences(SectionExports) = 0 THEN [ok |-> TRUE, entries |-> <<>>]
    ELSE LET body == CHOOSE b \in BodiesOf(SectionExports) : TRUE
             count == ulebAt(body, 1)
         IN  ParseExports(body, count.next, count.value)

\* the entry for the i-th of entries is among the entries read exactly
\* `times` times
ExportedTimes(read, entries, kind, i, times) ==
    Cardinality({k \in 1..Len(read) :
                    read[k] = [name |-> encodeUTF8(entries[i].name),
                               kind |-> kind, index |-> i - 1]}) = times

KindExported(read, entries, kind) ==
    \A i \in 1..Len(entries) :
        ExportedTimes(read, entries, kind, i, IF entries[i].export THEN 1 ELSE 0)

Flagged(entries) == Cardinality({i \in 1..Len(entries) : entries[i].export})

\* C14: the exports section has exactly one entry for each function, table,
\* memory and global whose export flag is set and none for the others; the
\* entry carries the name, the kind byte (function 0, table 1, memory 2,
\* global 3) and the index of the declaration within its kind.
C14_Exports ==
    Done =>
        LET exports == ExportsRead
            read == exports.entries
        IN  /\ Occurrences(SectionExports) <= 1
            /\ exports.ok
            /\ KindExported(read, moduleDefinition.functions, 0)
            /\ KindExported(read, moduleDefinition.tables, 1)
            /\ KindExported(read, moduleDefinition.memories, 2)
            /\ KindExported(read, moduleDefinition.globals, 3)
            /\ Len(read) =
                   Flagged(moduleDefinition.functions) + Flagged(moduleDefinition.tables)
                       + Flagged(moduleDefinition.memories) + Flagged(moduleDefinition.globals)

\* the second function, the first table, both memories and the second global
\* are exported, and the five entries are read back from the module
C14_Witness ==
    /\ Done
    /\ input.pool = "exports"
    /\ input.functions = {2}
    /\ input.tables = {1}
    /\ input.memories = {1, 2}
    /\ input.globals = {2}
    /\ ExportsRead.entries =
           <<[name |-> <<98>>, kind |-> 0, index |-> 1],
             [name |-> <<97>>, kind |-> 1, index |-> 0],
             [name |-> <<98>>, kind |-> 3, index |-> 1],
             [name |-> <<97>>, kind |-> 2, index |-> 0],
             [name |-> <<98>>, kind |-> 2, index |-> 1]>>

-----------------------------------------------------------------------------
(* The LEB128 encodings                                                    *)

\* every byte but the last has the continuation bit, the last has not
ContinuationBits(bytes) ==
    /\ Len(bytes) >= 1
    /\ \A i \in 1..Len(bytes) :
           IF i < Len(bytes) THEN bytes[i] \in 128..255 ELSE bytes[i] \in 0..127

\* the integer that LEB128 bytes stand for: the groups of 7 bits, and for a
\* signed one the sign taken from bit 6 of the last group
DecodeLeb128(bytes, signed) ==
    [type |-> "bigint",
     digits |-> [i \in 1..Len(bytes) |-> bytes[i] % 128],
     sign |-> IF signed /\ bytes[Len(bytes)] % 128 >= 64 THEN -1 ELSE 0]

SameInteger(a, b) ==
    /\ a.sign = b.sign
    /\ \A i \in 1..(Len(a.digits) + Len(b.digits)) : DigitAt(a, i) = DigitAt(b, i)

Encoded(step) == pc = step /\ input.pool = "numbers"

\* C15: encodeUint of a number or bigint n >= 0 is the shortest unsigned
\* LEB128 of n: every byte but the last has the continuation bit, the last
\* byte is not zero unless n is 0, and the bytes decode to n; a negative n
\* throws the invalid-value error and gives no bytes.
C15_EncodeUint ==
    Encoded("encodeUint") =>
        LET n == ValueOf(input)
            bytes == returned.bytes
        IN  IF IsNegative(n)
            THEN /\ returned.threw
                 /\ error = [kind |-> "InvalidValue", name |-> "negative"]
                 /\ bytes = <<>>
            ELSE /\ ~returned.threw
                 /\ ContinuationBits(bytes)
                 /\ bytes[Len(bytes)] = 0 => IsZero(n)
                 /\ SameInteger(DecodeLeb128(bytes, FALSE), n)

\* the number 2^31, the first that takes the bigint loop, is five bytes
C15_Witness ==
    /\ Encoded("encodeUint")
    /\ input.type = "number"
    /\ input.shape = "2^k"
    /\ input.exponent = 31
    /\ returned.bytes = <<128, 128, 128, 128, 8>>

\* n is a two's complement number of 7 * groups bits
FitsGroups(n, groups) ==
    /\ \A i \in (groups + 1)..Len(n.digits) : n.digits[i] = DigitAt(n, Len(n.digits) + 1)
    /\ DigitAt(n, groups) >= 64 <=> IsNegative(n)

\* the least number of 7-bit groups that hold n with its sign
GroupsNeeded(n) ==
    CHOOSE groups \in 1..(Len(n.digits) + 1) :
        /\ FitsGroups(n, groups)
        /\ \A fewer \in 1..(groups - 1) : ~FitsGroups(n, fewer)

\* C16: for every integer n, on the fast path for 32-bit numbers and in the
\* bigint loop, decoding encodeInt(n) as signed LEB128 yields n; a value that
\* needs five groups of 7 bits gets five groups.
C16_EncodeIntDecodes ==
    Encoded("encodeInt") =>
        LET n == ValueOf(input)
            bytes == returned.bytes
        IN  /\ ~returned.threw
            /\ ContinuationBits(bytes)
            /\ SameInteger(DecodeLeb128(bytes, TRUE), n)
            /\ GroupsNeeded(n) = 5 => Len(bytes) = 5

\* -2^31, the least number of the fast path, needs five groups and gets them
C16_Witness ==
    /\ Encoded("encodeInt")
    /\ input.type = "number"
    /\ input.shape = "-2^k"
    /\ input.exponent = 31
    /\ GroupsNeeded(ValueOf(input)) = 5
    /\ returned.bytes = <<128, 128, 128, 128, 120>>

\* C17 as stated: encodeInt(n) is the shortest signed LEB128 of n, and the
\* fast path and the bigint loop give the same bytes for every n of the
\* 32-bit signed range, -64, -8192, -2^20 and -2^27 among them.
C17_EncodeIntShortest ==
    Encoded("encodeInt") =>
        LET n == ValueOf(input)
            bytes == returned.bytes
        IN  /\ Len(bytes) = GroupsNeeded(n)
            /\ InInt32Range(n) =>
                   /\ encodeSignedInt32(Int32Of(n)) = encodeSignedBigInt(n)
                   /\ input.type = "number" => bytes = encodeSignedBigInt(n)

\* what the code does: the fast path takes one group more than needed for
\* -64, -8192, -2^20 and -2^27, where the bigint loop takes the least; on
\* every other value here the two agree and the bytes are the shortest
C17_ButNegativePowers ==
    Encoded("encodeInt") =>
        LET n == ValueOf(input)
            bytes == returned.bytes
            longer == /\ input.type = "number"
                      /\ input.shape = "-2^k"
                      /\ input.exponent \in {6, 13, 20, 27}
        IN  /\ Len(bytes) = GroupsNeeded(n) + (IF longer THEN 1 ELSE 0)
            /\ encodeSignedBigInt(n) # <<>> /\ Len(encodeSignedBigInt(n)) = GroupsNeeded(n)
            /\ (input.type = "number" /\ InInt32Range(n) /\ ~longer)
                   => bytes = encodeSignedBigInt(n)

\* the number -64 is encoded on the fast path as the two bytes C0 7F, the
\* bigint -64 as the one byte 40
C17_MinusSixtyFour ==
    /\ Encoded("encodeInt")
    /\ input.type = "number"
    /\ input.shape = "-2^k"
    /\ input.exponent = 6
    /\ returned.bytes = <<192, 127>>
    /\ encodeSignedBigInt(ValueOf(input)) = <<64>>

-----------------------------------------------------------------------------
(* The immediates of the integer constants                                 *)

\* encodeInt of the value wrapped to a signed integer of `bits` bits, taken as
\* a number and taken as a bigint
EncodeIntWrapped(bits, value) ==
    {encodeSignedLeb128OfValue([asIntN(bits, value) EXCEPT !.type = type]).bytes :
        type \in {"number", "bigint"}}

\* C18 as stated: the immediate of i32.const(v) is encodeInt of v wrapped to
\* signed 32 bits and the immediate of i64.const(v) is encodeInt of v wrapped
\* to signed 64 bits; the first is at most 5 bytes, the second at most 10.
C18_ConstWrapped ==
    /\ Encoded("i32.const") =>
           /\ ~returned.threw
           /\ returned.bytes \in EncodeIntWrapped(32, ValueOf(input))
           /\ Len(returned.bytes) <= 5
    /\ Encoded("i64.const") =>
           /\ ~returned.threw
           /\ returned.bytes \in EncodeIntWrapped(64, ValueOf(input))
           /\ Len(returned.bytes) <= 10

\* what the code does: i32.const wraps numbers and bigints, i64.const wraps
\* bigints only; a number is encoded as it is
C18_ButWideNumbers ==
    /\ Encoded("i32.const") =>
           /\ returned.bytes \in EncodeIntWrapped(32, ValueOf(input))
           /\ Len(returned.bytes) <= 5
    /\ Encoded("i64.const") =>
           IF input.type = "bigint"
           THEN /\ returned.bytes \in EncodeIntWrapped(64, ValueOf(input))
                /\ Len(returned.bytes) <= 10
           ELSE /\ returned.bytes = encodeSignedLeb128OfValue(ValueOf(input)).bytes
                /\ SameInteger(DecodeLeb128(returned.bytes, TRUE), ValueOf(input))

\* i64.const of the number 2^63 has the immediate of 2^63, where the bigint
\* 2^63 is wrapped to -2^63
C18_TwoToThe63 ==
    /\ Encoded("i64.const")
    /\ input.type = "number"
    /\ input.shape = "2^k"
    /\ input.exponent = 63
    /\ returned.bytes = <<128, 128, 128, 128, 128, 128, 128, 128, 128, 1>>
    /\ EncodeIntWrapped(64, ValueOf(input)) = {<<128, 128, 128, 128, 128, 128, 128, 128, 128, 127>>}

\* i64.const of the number 2^70 has an immediate of 11 bytes
C18_ElevenBytes ==
    /\ Encoded("i64.const")
    /\ input.type = "number"
    /\ input.shape = "2^k"
    /\ input.exponent = 70
    /\ Len(returned.bytes) = 11

-----------------------------------------------------------------------------
(* Lists of instructions with sub-lists                                    *)

OpcodesEmitted == [i \in 1..Len(emitted) |-> emitted[i].opcodeName]

\* C19: a list of instructions with nested sub-lists is encoded to the bytes
\* of its depth-first, left-to-right flattening; flattening keeps every
\* instruction, in order, and leaves the body of a block instruction as it is.
C19_Flattening ==
    (input.pool = "nesting" /\ PastCode) =>
        LET block == createBlockInstruction("block", "a", NoType, NestingBlockBody(input))
        IN  /\ flattenInstructions(NestingInstructions(input))
                   = <<Op_i32_const(1), block, Op_drop, Op_end>>
            /\ flattenInstructions(NestingBlockBody(input))
                   = <<Op_i32_const(2), Op_drop, Op_nop, Op_end>>
            /\ OpcodesEmitted
                   = <<"i32.const", "block", "i32.const", "drop", "nop", "end", "drop", "end">>
            /\ codeEntries = <<<<0, 65, 1, 2, 64, 65, 2, 26, 1, 11, 26, 11>>>>
            /\ codeEntries[1]
                   = emitFunctionBody(
                         FunctionDefinition("a", FALSE, <<>>, <<>>, <<>>,
                             <<Op_i32_const(1),
                               createBlockInstruction("block", "a", NoType,
                                   <<Op_i32_const(2), Op_drop, Op_nop, Op_end>>),
                               Op_drop, Op_end>>), context).bytes

\* sub-lists three deep around the function's instructions and empty
\* sub-lists in the body of the block
C19_Witness ==
    /\ Done
    /\ input.pool = "nesting"
    /\ input.outer = 5
    /\ input.inner = 6
    /\ moduleDefinition.functions[1].instructions[1].tag = "list"
    /\ Len(flattenInstructions(moduleDefinition.functions[1].instructions)[2].bodyInstructions) = 6
    /\ codeEntries = <<<<0, 65, 1, 2, 64, 65, 2, 26, 1, 11, 26, 11>>>>

-----------------------------------------------------------------------------
(* memory.copy                                                             *)

MemoryCopyImmediates == {e.immediates : e \in EmittedWith({"memory.copy"})}

\* C20 as stated: memory.copy(m1, m2) writes two unsigned LEB128 memory
\* indices, the first that of m1 and the second that of m2, which differ when
\* m1 and m2 name different memories; an unknown m2 is an unresolved name.
C20_MemoryCopy ==
    (input.pool = "names" /\ input.kind = "memory.copy" /\ input.first # "d") =>
        IF input.second = "d"
        THEN FailedUnresolved
        ELSE Done =>
                 MemoryCopyImmediates =
                     {<<PlaceOf(moduleDefinition.memories, input.first),
                        PlaceOf(moduleDefinition.memories, input.second)>>}

\* what the code does: both indices are looked up under the first name, so
\* the second name is never resolved and never missed
C20_FirstIndexTwice ==
    (input.pool = "names" /\ input.kind = "memory.copy") =>
        IF input.first = "d"
        THEN FailedUnresolved
        ELSE /\ error = NoError
             /\ Done =>
                    MemoryCopyImmediates =
                        {<<PlaceOf(moduleDefinition.memories, input.first),
                           PlaceOf(moduleDefinition.memories, input.first)>>}

\* memory.copy("b", "a") between the two memories of the module is encoded
\* with the index 1 twice
C20_SameIndexTwice ==
    /\ Done
    /\ input.pool = "names"
    /\ input.kind = "memory.copy"
    /\ input.first = "b"
    /\ input.second = "a"
    /\ MemoryCopyImmediates = {<<1, 1>>}

-----------------------------------------------------------------------------
(* elem.drop                                                               *)

ElemDropImmediates == {e.immediates : e \in EmittedWith({"elem.drop"})}

\* the encode failed at the instruction with UnresolvedName for this name and
\* the instruction wrote no immediate byte
Unresolved(name) ==
    /\ ~PastCode
    /\ pc = "idle" => error = NoError
    /\ pc \in {"threw", "failed"} =>
           /\ error = [kind |-> "UnresolvedName", name |-> name]
           /\ \A e \in Threw : e.immediates = <<>>

\* C21 as stated: elem.drop(name) writes the 0-based declaration index of the
\* element segment called name, looked up among the element segments: a name
\* of a table that is no element segment is unresolved, and the name of an
\* element segment resolves whether or not a table has that name.
C21_ElemDrop ==
    input.pool = "elem.drop" =>
        IF Declared(moduleDefinition.elements, input.name)
        THEN /\ error = NoError
             /\ Done => ElemDropImmediates
                            = {<<PlaceOf(moduleDefinition.elements, input.name)>>}
        ELSE Unresolved(input.name)

\* what the code does: the name is looked up among the tables
C21_TablesLookup ==
    input.pool = "elem.drop" =>
        IF Declared(moduleDefinition.tables, input.name)
        THEN /\ error = NoError
             /\ Done => ElemDropImmediates
                            = {<<PlaceOf(moduleDefinition.tables, input.name)>>}
        ELSE Unresolved(input.name)

\* with the tables b, a and the element segments a, b, elem.drop("a") is
\* written with the index 1 of the table a
C21_TableIndexWritten ==
    /\ Done
    /\ input.pool = "elem.drop"
    /\ input.tables = <<"b", "a">>
    /\ input.elements = <<"a", "b">>
    /\ input.name = "a"
    /\ ElemDropImmediates = {<<1>>}

\* with no table, elem.drop of the element segment a fails
C21_NoTable ==
    /\ pc = "failed"
    /\ input.pool = "elem.drop"
    /\ input.tables = <<>>
    /\ input.name = "a"
    /\ error = [kind |-> "UnresolvedName", name |-> "a"]

-----------------------------------------------------------------------------
(* The table of encoded opcodes                                            *)

\* the module has instructions in its functions only, and no function has
\* declared locals: a function's entry is one zero byte and its instructions
OnlyFunctionsEmit ==
    /\ moduleDefinition.globals = <<>>
    /\ moduleDefinition.elements = <<>>
    /\ moduleDefinition.data = <<>>
    /\ \A i \in 1..Len(moduleDefinition.functions) :
           moduleDefinition.functions[i].locals = <<>>

\* what each emitted instruction wrote: the bytes kept for its opcode name,
\* then its immediates
InstructionsWritten ==
    [k \in 1..Len(emitted) |-> opcodeNameToBytes[emitted[k].opcodeName] \o emitted[k].immediates]

RECURSIVE Joined(_, _, _)
\* the sequences parts[i], parts[i+1], ... without their first `skip` elements, joined
Joined(parts, i, skip) ==
    IF i > Len(parts) THEN <<>>
    ELSE SubSeq(parts[i], skip + 1, Len(parts[i])) \o Joined(parts, i + 1, skip)

-----------------------------------------------------------------------------
(* The names an instruction can see                                        *)

\* the encode never returns, and ends with UnresolvedName for this name
NeverResolved(name) ==
    /\ ~Done
    /\ error # NoError <=> pc \in {"threw", "failed"}
    /\ error # NoError => error = [kind |-> "UnresolvedName", name |-> name]

\* the parameters and locals of the function an instruction is placed in
LocalsAt(place) ==
    CASE place = "function 1" -> <<"a", "b">>
      [] place = "function 2" -> <<"c", "a">>
      [] OTHER -> <<>>

\* C23: while the body of a function is emitted the locals lookup holds the
\* names of its own parameters and locals and no others, a name declared
\* only in an earlier function being unresolved; the lookups of the module
\* are the same for every function; the instructions of the global, element
\* and data sections see no local of any function.
C23_Scopes ==
    input.pool = "scopes" =>
        LET locals == LocalsAt(input.place)
            written == {e \in EmittedWith({input.kind}) : e.names = <<input.name>>}
            declared == \E i \in 1..Len(locals) : locals[i] = input.name
            index == IF input.kind = "local.get"
                     THEN (CHOOSE i \in 1..Len(locals) : locals[i] = input.name) - 1
                     ELSE IF input.kind = "global.get"
                     THEN PlaceOf(moduleDefinition.globals, input.name)
                     ELSE PlaceOf(moduleDefinition.functions, input.name)
        IN  IF input.kind = "local.get" /\ ~declared
            THEN NeverResolved(input.name)
            ELSE /\ error = NoError
                 /\ Done =>
                        /\ Cardinality(written) = 1
                        /\ \A e \in written :
                               /\ e.immediates = <<index>>
                               /\ e.locals = {locals[i] : i \in 1..Len(locals)}

\* local.get("a") in the second function is written with the index 1 that a
\* has there, not the 0 it has in the first
C23_Witness ==
    /\ Done
    /\ input.pool = "scopes"
    /\ input.place = "function 2"
    /\ input.kind = "local.get"
    /\ input.name = "a"
    /\ \E e \in EmittedWith({"local.get"}) : e.immediates = <<1>> /\ e.locals = {"a", "c"}

-----------------------------------------------------------------------------
(* The block stack among sibling blocks                                    *)

\* the names of the blocks whose bodies contain each instruction of a
\* siblings input, innermost first, in the order the instructions are written:
\*   a [ 1, b [ 2 ], end, 3 ], end, 4, c [ 5 ], end, 6, end
EnclosingBlocks ==
    <<<<>>, <<"a">>, <<"a">>, <<"b", "a">>, <<"a">>, <<"a">>, <<>>,
      <<>>, <<>>, <<"c">>, <<>>, <<>>, <<>>>>

\* the place of each of these instructions, 0 for a block or an end
PlaceWritten == <<0, 1, 0, 2, 0, 3, 0, 4, 0, 5, 0, 6, 0>>

\* the blocks around the branch of the input
BlocksAroundBranch ==
    EnclosingBlocks[CHOOSE k \in 1..Len(PlaceWritten) : PlaceWritten[k] = input.place]

\* the 0-based place of name in a stack of distinct names
DepthIn(stack, name) == (CHOOSE i \in 1..Len(stack) : stack[i] = name) - 1

InStack(stack, name) == \E i \in 1..Len(stack) : stack[i] = name

\* C24: every instruction sees as block stack the names of exactly the blocks
\* whose bodies contain it, innermost first; the instructions after a block
\* see the stack as it was before the block; a branch resolves the name of a
\* block around it to its depth, and a branch that names a block already
\* left, or not yet entered, is never written and makes the encode fail.
C24_BlockStack ==
    input.pool = "siblings" =>
        /\ Len(emitted) <= Len(EnclosingBlocks)
        /\ \A k \in 1..Len(emitted) : emitted[k].blockStack = EnclosingBlocks[k]
        /\ PastCode => Len(emitted) = Len(EnclosingBlocks)
        /\ IF InStack(BlocksAroundBranch, input.target)
           THEN /\ Threw = {}
                /\ \A e \in EmittedWith({input.opcodeName}) :
                       e.immediates = <<DepthIn(BlocksAroundBranch, input.target)>>
           ELSE /\ ~PastCode
                /\ EmittedWith({input.opcodeName}) = {}
                /\ pc \in {"threw", "failed"} => error # NoError

\* br a written after block a and inside block c: the encode has failed, the
\* branch having seen only c
C24_Witness ==
    /\ pc = "failed"
    /\ input.pool = "siblings"
    /\ input.place = 5
    /\ input.target = "a"
    /\ \E e \in Threw : e.opcodeName = input.opcodeName /\ e.blockStack = <<"c">>

\* br a at place 3, after the inner block b and still inside a: depth 0
C24_AfterInnerBlock ==
    /\ Done
    /\ input.pool = "siblings"
    /\ input.place = 3
    /\ input.target = "a"
    /\ \E e \in EmittedWith({input.opcodeName}) :
           e.blockStack = <<"a">> /\ e.immediates = <<0>>

-----------------------------------------------------------------------------
(* The output of a builder only grows                                      *)

IsPrefixOf(s, t) == Len(s) <= Len(t) /\ SubSeq(t, 1, Len(s)) = s

RECURSIVE EmitsSinceReset(_)
\* the number of emitModule calls on the caller's builder since its last reset
EmitsSinceReset(made) ==
    IF made = <<>> \/ made[Len(made)] = "reset" THEN 0
    ELSE 1 + EmitsSinceReset(SubSeq(made, 1, Len(made) - 1))

RECURSIVE Repeat(_, _)
Repeat(bytes, n) == IF n = 0 THEN <<>> ELSE bytes \o Repeat(bytes, n - 1)

\* the caller's builder holds n times the same bytes
HoldsCopies(n) ==
    IF n = 0 THEN outputBytes = <<>>
    ELSE /\ Len(outputBytes) % n = 0
         /\ outputBytes = Repeat(SubSeq(outputBytes, 1, Len(outputBytes) \div n), n)

\* between two calls the builder holds, for every emitModule since the last
\* reset, what that emitModule wrote, in the order of the calls
KeptInFront ==
    (calls # <<>> /\ calls[1] = "builder") =>
        /\ pc \in {"done", "failed"} => HoldsCopies(EmitsSinceReset(calls))
        /\ (pc = "done" /\ calls[Len(calls)] # "reset") =>
               /\ ~firstReturned.threw
               /\ outputBytes = Repeat(firstReturned.bytes, EmitsSinceReset(calls))
        /\ calls[Len(calls)] = "reset" => outputBytes = <<>>

\* a step appends to the output, or it is reset() and leaves the output empty
OnlyGrows ==
    IF calls' = Append(calls, "reset")
    THEN outputBytes' = <<>>
    ELSE IsPrefixOf(outputBytes, outputBytes')

\* C25: every step of emitModule appends to the output and never removes or
\* changes a byte of it, so every intermediate output is a prefix of the final
\* one; a builder that already holds bytes keeps them in front of the module
\* it emits next; only reset() takes bytes away, and it leaves the output
\* empty.
C25_OutputGrows == []KeptInFront /\ [][OnlyGrows]_vars

\* the module emitted three times on one builder: three times its encoding
C25_Witness ==
    /\ Done
    /\ calls = <<"builder", "again", "again">>
    /\ Len(firstReturned.bytes) > Len(preamble)
    /\ outputBytes = firstReturned.bytes \o firstReturned.bytes \o firstReturned.bytes

\* emitted, reset and emitted again: one encoding
C25_AfterReset ==
    /\ Done
    /\ calls = <<"builder", "reset", "again">>
    /\ Len(outputBytes) > Len(preamble)
    /\ outputBytes = firstReturned.bytes

\* a failed encode once more on the same builder: twice the bytes written
\* before the throw
C25_FailedTwice ==
    /\ pc = "failed"
    /\ calls = <<"builder", "again">>
    /\ Len(outputBytes) > 2 * Len(preamble)
    /\ HoldsCopies(2)

-----------------------------------------------------------------------------
(* The count of the initializer expressions of an element segment          *)

\* what an expressions segment writes before the count of its expressions:
\* the flags and, by the flags, the table index, the offset and the
\* reference type
ExpressionsHeader ==
    LET offset == <<65, 0, 11>>
        type == emitReferenceType(funcref).bytes
    IN  CASE input.flags = 4 -> <<4>> \o offset
          [] input.flags = 5 -> <<5>> \o type
          [] input.flags = 6 -> <<6, 0>> \o offset \o type
          [] input.flags = 7 -> <<7>> \o type

\* the bytes of the expressions of the input: ref.func i, end
RECURSIVE ExpressionsBytes(_)
ExpressionsBytes(i) ==
    IF i > Len(input.functions) THEN <<>>
    ELSE opcodeNameToBytes["ref.func"]
             \o <<PlaceOf(moduleDefinition.functions, input.functions[i]), 11>>
             \o ExpressionsBytes(i + 1)

\* the elements section is one segment whose expressions are prefixed by count
ExpressionsPrefixedBy(count) ==
    BodiesOf(SectionElements) = {<<1>> \o ExpressionsHeader \o <<count>> \o ExpressionsBytes(1)}

\* C26 as stated: the count before the expressions of an element segment with
\* flags 4 to 7 is the number of initializer expressions supplied, each an
\* instruction sequence ended by end, and not the number of instructions.
C26_ExpressionCount ==
    (input.pool = "expressions" /\ PastCode) =>
        ExpressionsPrefixedBy(Len(input.functions))

\* what holds instead: the count is the number of instructions of all the
\* expressions together, here two for every expression
C26_InstructionCount ==
    (input.pool = "expressions" /\ PastCode) =>
        ExpressionsPrefixedBy(2 * Len(input.functions))

\* a passive segment of the two expressions [ref.func a, end] and
\* [ref.func b, end] is written with the count 4
C26_CountsInstructions ==
    /\ Done
    /\ input.pool = "expressions"
    /\ input.flags = 5
    /\ input.form = "lists"
    /\ input.functions = <<"a", "b">>
    /\ ExpressionsPrefixedBy(4)

-----------------------------------------------------------------------------
(* A branch in the body of an else                                         *)

\* the depth of the target seen from the body of the if: b is the block
\* around the if, a the block around b
DepthFromIf == IF input.target = "b" THEN 1 ELSE 2

\* the branch of the input is written with this depth
BranchWritten(depth) ==
    \E e \in EmittedWith({input.opcodeName}) :
        /\ EmittedWith({input.opcodeName}) = {e}
        /\ e.immediates = <<depth>>

\* C27 as stated: with the else written inside the if body, a branch in the
\* else body to a block around the if is written with the same depth as the
\* same branch in the if body: the else opens no branch level of its own.
C27_ElseDepth ==
    (input.pool = "else" /\ input.style = "inside" /\ PastCode) =>
        BranchWritten(DepthFromIf)

\* what holds instead: an else is a block instruction that puts its own name
\* on the stack of its body, on top of the if when it is written inside the
\* if body and in place of the if when it is written after it; a branch in
\* the else body is one level deeper than in the if body in the first case;
\* in the second it is as deep, the else body being one level less deep than
\* the if body.
C27_ElseOpensLevel ==
    (input.pool = "else" /\ PastCode) =>
        /\ BranchWritten(IF input.place = "else" /\ input.style = "inside"
                         THEN DepthFromIf + 1
                         ELSE DepthFromIf)
        /\ \A e \in EmittedWith({input.opcodeName}) :
               e.blockStack =
                   CASE input.place = "if" -> <<ifBlockName(IfCounter(input)), "b", "a">>
                     [] input.place = "else" /\ input.style = "inside" ->
                            <<elseBlockName(0), ifBlockName(1), "b", "a">>
                     [] OTHER -> <<elseBlockName(1), "b", "a">>

\* br a in an else written inside the if body: depth 3, where the same
\* branch in the if body has depth 2
C27_OneLevelDeeper ==
    /\ Done
    /\ input.pool = "else"
    /\ input.style = "inside"
    /\ input.place = "else"
    /\ input.opcodeName = "br"
    /\ input.target = "a"
    /\ BranchWritten(3)

-----------------------------------------------------------------------------
(* The bytes of an opcode                                                  *)

OpcodeEmitted == input.pool = "opcodes" /\ pc = "emitOpcode"

\* C28 as stated: an opcode n from 0 to 0xFF, 0x80 to 0xFF included, is
\* written as the one byte n; an opcode of up to 20 bits is written in 1 to 4
\* bytes; an opcode above 0xFFFFF is rejected with InvalidValue.
C28_OpcodeBytes ==
    OpcodeEmitted =>
        /\ input.opcode <= 255 => returned.bytes = <<input.opcode>>
        /\ input.opcode <= 1048575 => ~returned.threw /\ Len(returned.bytes) \in 1..4
        /\ input.opcode > 1048575 => returned.threw /\ error.kind = "InvalidValue"

\* the unsigned LEB128 bytes of a number below 2^14
Leb14(n) == IF n < 128 THEN <<n>> ELSE <<128 + (n % 128), n \div 128>>

\* what holds instead: only an opcode below 0x80 is written as the one byte
\* n; an opcode from 0x80 to 0xFF is written as the two bytes n, 1 of its
\* unsigned LEB128 form, and so is a prefix byte of a longer opcode; the
\* other two parts hold as stated.
C28_OpcodeAsNumbers ==
    OpcodeEmitted =>
        /\ input.opcode <= 127 => returned.bytes = <<input.opcode>>
        /\ input.opcode \in 128..255 => returned.bytes = <<input.opcode, 1>>
        /\ input.opcode \in 256..65535 =>
               returned.bytes = Leb14(input.opcode \div 256) \o Leb14(input.opcode % 256)
        /\ input.opcode \in 65536..1048575 =>
               returned.bytes = Leb14(input.opcode \div 4096) \o Leb14(input.opcode % 4096)
        /\ input.opcode <= 1048575 => ~returned.threw /\ Len(returned.bytes) \in 1..4
        /\ input.opcode > 1048575 => returned.threw /\ error.kind = "InvalidValue"

\* ref.func, 0xD2, is written as the two bytes 0xD2, 0x01
C28_RefFuncTwoBytes ==
    /\ OpcodeEmitted
    /\ input.opcode = wasmOpcodes("ref.func")
    /\ returned.bytes = <<210, 1>>
    /\ opcodeNameToBytes["ref.func"] = <<210, 1>>

\* memory.copy, 0xFC0A, is written as the three bytes 0xFC, 0x01, 0x0A
C28_PrefixTwoBytes ==
    /\ OpcodeEmitted
    /\ input.opcode = wasmOpcodes("memory.copy")
    /\ returned.bytes = <<252, 1, 10>>

-----------------------------------------------------------------------------
(* Entities that share a name                                              *)

\* the 0-based place of the last entry of `names` that is `name`
LastPlace(names, name) ==
    (CHOOSE i \in 1..Len(names) :
         /\ names[i] = name
         /\ \A j \in (i + 1)..Len(names) : names[j] # name) - 1

RECURSIVE EachPlace(_, _, _)
\* Entry(i) \o Entry(i + 1) \o ... \o Entry(k)
EachPlace(Entry(_), i, k) ==
    IF i > k THEN <<>> ELSE Entry(i) \o EachPlace(Entry, i + 1, k)

\* the names the instruction of a duplicates input is resolved among, in the
\* order of their indices
NamesInScope ==
    IF input.kind = "call_ref" THEN <<"a", "b">> \o input.names ELSE input.names

\* every entity of a duplicates input is written, at its own place
AllWritten ==
    LET k == Len(input.names)
        P == input.params
        L == k - P
        body == <<L>> \o ExpectedLocalGroups(1, L)
                    \o <<32, LastPlace(NamesInScope, input.target), 11>>
    IN  CASE input.kind = "call" ->
                 /\ BodiesOf(SectionTypes) = {<<k>> \o ExpectedSignatures(1, k)}
                 /\ BodiesOf(SectionFunctions) = {<<k>> \o [i \in 1..k |-> i - 1]}
          [] input.kind = "call_ref" ->
                 BodiesOf(SectionTypes) =
                     {<<2 + k>> \o ExpectedSignatures(1, 2) \o Repeated(ExpectedCustomType, k)}
          [] input.kind = "table.get" ->
                 BodiesOf(SectionTables) =
                     {<<k>> \o EachPlace(LAMBDA i : <<112, 0, i>>, 1, k)}
          [] input.kind = "memory.size" ->
                 BodiesOf(SectionMemory) =
                     {<<k>> \o EachPlace(LAMBDA i : <<1, i, 2>>, 1, k)}
          [] input.kind = "global.get" ->
                 BodiesOf(SectionGlobals) =
                     {<<k>> \o EachPlace(LAMBDA i : <<127, 0, 65, i, 11>>, 1, k)}
          [] input.kind = "local.get" ->
                 /\ BodiesOf(SectionTypes) = {<<1, 96, P>> \o Repeated(<<127>>, P) \o <<0>>}
                 /\ BodiesOf(SectionCode) = {<<1, Len(body)>> \o body}

C29_LocalOverParameter ==
    /\ Done
    /\ input.pool = "duplicates"
    /\ input.kind = "local.get"
    /\ input.names = <<"a", "b", "a">>
    /\ input.params = 2
    /\ input.target = "a"
    /\ \E e \in EmittedWith({"local.get"}) : e.immediates = <<2>>

\* the functions a, b and the custom types b, a: call_ref a is written with
\* 3, the index of the custom type, and call_ref b with 2
C29_CustomTypeOverFunction ==
    /\ Done
    /\ input.pool = "duplicates"
    /\ input.kind = "call_ref"
    /\ input.names = <<"b", "a">>
    /\ input.target = "a"
    /\ MapGet(context.typesLookup, "b") = 2
    /\ \E e \in EmittedWith({"call_ref"}) : e.immediates = <<3>>

-----------------------------------------------------------------------------
(* The view and the length of a dynamic array                              *)

\* sink.values
SinkView ==
    IF sink.type = "DynamicUint8Array"
    THEN DynamicUint8Array_values(sink)
    ELSE DynamicNumberArray_values(sink)

\* between two operations the view of the sink is what was appended since
\* its last clear and the length their number; the length of a
\* DynamicUint8Array is at most its capacity
ViewIsAppended ==
    input.pool = "sink" =>
        /\ SinkView = appended
        /\ sink.length = Len(appended)
        /\ sink.type = "DynamicUint8Array" => sink.length <= DynamicUint8Array_capacity(sink)

\* an operation that changes the storage for a larger one leaves as many
\* values in the view as before or more, the earlier ones at their places
GrowthKeepsValues ==
    (input.pool = "sink" /\ Len(sink'.elements) > Len(sink.elements)) =>
        /\ sink'.length >= sink.length
        /\ \A i \in 1..sink.length : sink'.elements[i] = sink.elements[i]

\* C30: after any sequence of append-one, append-many and clear operations
\* the view of a sink is the values appended since the last clear, in order,
\* and its length their number; growing the storage loses, reorders or alters
\* none of the earlier values, and the length never exceeds the capacity.
C30_SinkView == []ViewIsAppended /\ [][GrowthKeepsValues]_vars

\* a DynamicUint8Array of capacity 1 that holds five values after its
\* storage has grown
C30_Witness ==
    /\ input.pool = "sink"
    /\ input.type = "DynamicUint8Array"
    /\ input.initialCapacity = 1
    /\ appended = <<7, 255, 255, 7, 7>>
    /\ SinkView = appended
    /\ DynamicUint8Array_capacity(sink) > 4

\* a cleared DynamicUint8Array appended to again: the storage still holds a
\* value of before the clear, and the view does not show it
C30_AfterClear ==
    /\ input.pool = "sink"
    /\ input.type = "DynamicUint8Array"
    /\ sink.elements = <<7, 255, 7, 0>>
    /\ SinkView = <<7>>
    /\ appended = <<7>>
====
